---- MODULE Spec2Model ----
(***************************************************************************)
(* Wash-trading analytics of NFT-TrueMarketPriceAL:                        *)
(*   - TransactionPatternAnalyzer (transaction_pattern_analysis.py): a     *)
(*     directed graph (networkx DiGraph) of the batch and its detectors;   *)
(*   - WalletRelationshipMapping (wallet_relationship_mapping.py): a       *)
(*     cached directed multigraph (networkx MultiDiGraph), lookup indices, *)
(*     wallet clustering and pairwise relationship scoring.                *)
(* Wallet ids are opaque; they are modelled as the integers                *)
(* 1..NumWallets.  Python floats are modelled as exact fractions.          *)
(***************************************************************************)
EXTENDS Integers, Sequences, FiniteSets, TLC

VARIABLES
    transactions,        \* self.transactions: the batch both objects are built from
    analyzer_graph,      \* TransactionPatternAnalyzer.graph (DiGraph)
    _tx_lookup,          \* WalletRelationshipMapping._tx_lookup
    _partners_cache,     \* WalletRelationshipMapping._partners_cache
    _gas_map_cache,      \* WalletRelationshipMapping._gas_map_cache
    _graph_cache,        \* WalletRelationshipMapping._graph_cache
    _graph_cache_lock,   \* threads holding WalletRelationshipMapping._graph_cache_lock
    graph,               \* WalletRelationshipMapping.graph
    wallet_clusters,     \* WalletRelationshipMapping.wallet_clusters
    relationship_scores, \* WalletRelationshipMapping.relationship_scores
    pc,                  \* position of each thread inside _build_transaction_graph
    arg,                 \* the batch each thread passed to _build_transaction_graph
    ret,                 \* the graph object each thread's call returned
    calls,               \* calls of _build_transaction_graph each thread has made
    graphs_built,        \* MultiDiGraph objects constructed so far (object identity)
    lastCall,            \* the last method call observed and the value it returned
    stage,               \* the parallel stage call in progress, its arguments and wallets
    futures,             \* the futures of the units submitted by the stage in progress
    similar_pairs,       \* the stage's result list (similar_pairs, line 77; pairs, line 118)
    contract_id,         \* ContractService.contract_id
    contract,            \* ContractService.contract (a TrustScoreSwap object or None)
    successful_swaps     \* swaps that succeeded since the contract was initialized

vars == <<transactions, analyzer_graph, _tx_lookup, _partners_cache, _gas_map_cache,
          _graph_cache, _graph_cache_lock, graph, wallet_clusters,
          relationship_scores, pc, arg, ret, calls, graphs_built, lastCall,
          stage, futures, similar_pairs, contract_id, contract, successful_swaps>>

mapperVars == <<_tx_lookup, _partners_cache, _gas_map_cache, _graph_cache,
                _graph_cache_lock, graph, wallet_clusters, relationship_scores>>
poolVars == <<stage, futures, similar_pairs>>
threadVars == <<pc, arg, ret, calls, graphs_built, poolVars>>
serviceVars == <<contract_id, contract, successful_swaps>>
fraudVars == <<transactions, analyzer_graph, mapperVars, threadVars>>

-----------------------------------------------------------------------------
(* Bounds of the model *)

NumWallets == 4
NumWalletsMapper == 3
MaxTx == 3
MaxTxAnalyzer == 4
MaxTxBuild == 2
MaxTxDetectors == 3
MaxTxStages == 2
MaxTxScore == 2
MaxTxIngest == 2
MaxTxSimilarity == 3
NumWalletsSimilarity == 4
MaxTxTemporal == 3
MaxTxPool == 3
MaxTxBursts == 5
MaxTxPrices == 3
MaxTxGas == 3
NumThreads == 2
MaxCalls == 1
MaxMinCount == 2
MaxCycleLength == 4
MaxHopsArg == 3
NumTokens == 2
MaxMultiplier == 2
MaxAmount == 3
MaxSwaps == 2

(* Program constants *)

default_min_count == 2
default_max_cycle_length == 4
default_max_hops == 3
default_interval_threshold == 60
default_min_shared_partners == 3
default_time_window_seconds == 600

Wallets == 1..NumWallets

(* Python's None where a graph object is expected: no object (identity 0) *)
None == [id |-> 0, nodes |-> <<>>, edges |-> <<>>]

-----------------------------------------------------------------------------
(* Generic helpers *)

Range(s) == {s[i] : i \in DOMAIN s}

Contains(s, x) == \E i \in DOMAIN s : s[i] = x

Max2(a, b) == IF a >= b THEN a ELSE b

RECURSIVE FlattenSeq(_)
FlattenSeq(ss) == IF ss = <<>> THEN <<>> ELSE Head(ss) \o FlattenSeq(Tail(ss))

RECURSIVE SumSeq(_)
SumSeq(s) == IF s = <<>> THEN 0 ELSE Head(s) + SumSeq(Tail(s))

(* All listings (orders without repetition) of a finite set *)
RECURSIVE Listings(_)
Listings(S) ==
    IF S = {} THEN {<<>>}
    ELSE UNION {{<<x>> \o l : l \in Listings(S \ {x})} : x \in S}

(* Python float arithmetic, modelled exactly: a fraction in lowest terms *)
Abs(n) == IF n < 0 THEN -n ELSE n

RECURSIVE GCD(_, _)
GCD(a, b) == IF b = 0 THEN a ELSE GCD(b, a % b)

Frac(n, d) ==
    LET g == GCD(Abs(n), d)
    IN  [num |-> n \div g, den |-> d \div g]

FLess(p, q) == p.num * q.den < q.num * p.den

FOne == Frac(1, 1)

FZero == Frac(0, 1)

(* Variant: min returns its second argument, the value is not clamped *)
FMin_unclamped(p, q) == q

FMin(p, q) == IF FLess(q, p) THEN q ELSE p

FSub(p, q) == Frac(p.num * q.den - q.num * p.den, p.den * q.den)

-----------------------------------------------------------------------------
(* Transaction batches.  A record carries the keys both classes read.      *)
(* The batches of the model are all sequences of at most n transfers over  *)
(* the wallets, up to renaming of wallets: wallets are numbered in order   *)
(* of first appearance in the batch (each endpoint is a wallet already     *)
(* used or the next unused one).                                           *)

MkTx(k, f, t) ==
    [tx_id |-> k, from |-> f, to |-> t, amount |-> 1, value |-> 30,
     timestamp |-> 1000 + 10 * k, gas |-> 21, price |-> 100, chain |-> "eth"]

(* endpoint sequences of length k with the number of wallets used so far *)
RECURSIVE EndpointStates(_, _)
EndpointStates(k, w) ==
    IF k = 0 THEN {<<<<>>, 0>>}
    ELSE LET prev == EndpointStates(k - 1, w)
             ext  == {pw \in prev \X (1..w) : pw[2] <= pw[1][2] + 1}
         IN  {<<Append(pw[1][1], pw[2]), Max2(pw[1][2], pw[2])>> : pw \in ext}

(* the endpoint sequences of k endpoints over at most w wallets *)
EndpointSeqs(k, w) == {p[1] : p \in EndpointStates(k, w)}

BatchOf(e) == [k \in 1..(Len(e) \div 2) |-> MkTx(k, e[2 * k - 1], e[2 * k])]

BatchWallets(txs) == {txs[k].from : k \in DOMAIN txs} \cup {txs[k].to : k \in DOMAIN txs}

-----------------------------------------------------------------------------
(* networkx graphs.  Nodes are kept in insertion order, as networkx does.  *)

(* nx.MultiDiGraph: one edge per add_edge call, parallel edges kept *)
EmptyMultiDiGraph(id) == [id |-> id, nodes |-> <<>>, edges |-> <<>>]

AddNode(nodes, n) == IF Contains(nodes, n) THEN nodes ELSE Append(nodes, n)

MultiAddEdge(G, u, v, attrs) ==
    [G EXCEPT !.nodes = AddNode(AddNode(G.nodes, u), v),
              !.edges = Append(G.edges, [u |-> u, v |-> v, attrs |-> attrs])]

RECURSIVE MultiAddEdges(_, _)
MultiAddEdges(G, txs) ==
    IF txs = <<>> THEN G
    ELSE MultiAddEdges(MultiAddEdge(G, Head(txs).from, Head(txs).to, Head(txs)), Tail(txs))

(* nx.DiGraph: add_edge on an existing (u, v) only overwrites its attributes *)
EmptyDiGraph == [nodes |-> <<>>, succ |-> <<>>, attrs |-> <<>>]

DiAddEdge(G, u, v, a) ==
    LET nodes1 == AddNode(AddNode(G.nodes, u), v)
        succ1  == [n \in Range(nodes1) |->
                      IF n \in DOMAIN G.succ THEN G.succ[n] ELSE <<>>]
        succ2  == [succ1 EXCEPT ![u] = AddNode(succ1[u], v)]
        attrs1 == [e \in (DOMAIN G.attrs) \cup {<<u, v>>} |->
                      IF e = <<u, v>> THEN a ELSE G.attrs[e]]
    IN  [nodes |-> nodes1, succ |-> succ2, attrs |-> attrs1]

has_edge(G, u, v) == u \in DOMAIN G.succ /\ Contains(G.succ[u], v)

number_of_edges(G, u, v) == IF has_edge(G, u, v) THEN 1 ELSE 0

(* G.edges of a DiGraph: for each node in order, each successor in order *)
DiEdges(G) ==
    FlattenSeq([i \in DOMAIN G.nodes |->
        [j \in DOMAIN G.succ[G.nodes[i]] |-> <<G.nodes[i], G.succ[G.nodes[i]][j]>>]])

RECURSIVE _build_graph_from(_, _)
_build_graph_from(G, txs) ==
    IF txs = <<>> THEN G
    ELSE LET tx == Head(txs)
         IN  _build_graph_from(
                 DiAddEdge(G, tx.from, tx.to,
                           [tx_id |-> tx.tx_id, amount |-> tx.amount,
                            timestamp |-> tx.timestamp, price |-> tx.price]),
                 Tail(txs))

_build_graph(txs) == _build_graph_from(EmptyDiGraph, txs)

-----------------------------------------------------------------------------
(* Python built-ins on the batch *)

(* sorted(txs, key=lambda x: x['timestamp']): stable, equal timestamps    *)
(* keep their batch order                                                  *)
InsertByTimestamp(sorted, tx) ==
    LET n == Cardinality({i \in DOMAIN sorted : sorted[i].timestamp <= tx.timestamp})
    IN  SubSeq(sorted, 1, n) \o <<tx>> \o SubSeq(sorted, n + 1, Len(sorted))

RECURSIVE sorted_by_timestamp(_)
sorted_by_timestamp(txs) ==
    IF txs = <<>> THEN <<>>
    ELSE InsertByTimestamp(sorted_by_timestamp(SubSeq(txs, 1, Len(txs) - 1)), txs[Len(txs)])

(* the keys of a dict filled in batch order: first appearances *)
RECURSIVE KeysInOrder(_)
KeysInOrder(keys) ==
    IF keys = <<>> THEN <<>>
    ELSE AddNode(KeysInOrder(SubSeq(keys, 1, Len(keys) - 1)), keys[Len(keys)])

(* d[k] on a defaultdict, for each k of keys: a missing key is inserted    *)
(* with the default value                                                  *)
Subscripted(d, keys, default) ==
    [k \in (DOMAIN d) \cup keys |-> IF k \in DOMAIN d THEN d[k] ELSE default]

(* Variant: the lookups subscript the defaultdict *)
AfterGets_subscripting(d, keys, default) == Subscripted(d, keys, default)

(* d.get(k, default) on a defaultdict, for each k of keys: get returns the *)
(* default it is passed and inserts no key                                 *)
AfterGets(d, keys, default) == d

(* list.sort() on numbers *)
RECURSIVE SortedNumbers(_)
SortedNumbers(xs) ==
    IF xs = <<>> THEN <<>>
    ELSE LET rest == SortedNumbers(SubSeq(xs, 1, Len(xs) - 1))
             x == xs[Len(xs)]
             n == Cardinality({i \in DOMAIN rest : rest[i] <= x})
         IN  SubSeq(rest, 1, n) \o <<x>> \o SubSeq(rest, n + 1, Len(rest))

-----------------------------------------------------------------------------
(* WalletRelationshipMapping._build_fast_lookups: the three indices *)

TxLookup(txs) ==
    [p \in {<<txs[k].from, txs[k].to>> : k \in DOMAIN txs} |->
        SelectSeq(txs, LAMBDA tx : <<tx.from, tx.to>> = p)]

PartnersCache(txs) ==
    [w \in BatchWallets(txs) |->
        {txs[k].to : k \in {i \in DOMAIN txs : txs[i].from = w}}
        \cup {txs[k].from : k \in {i \in DOMAIN txs : txs[i].to = w}}]

GasMapCache(txs) ==
    [w \in {txs[k].from : k \in DOMAIN txs} |->
        LET mine == SelectSeq(txs, LAMBDA tx : tx.from = w)
        IN  [i \in DOMAIN mine |-> mine[i].gas]]

-----------------------------------------------------------------------------
(* Records that lack a key.  tx['k'] on a dict without the key k raises    *)
(* KeyError; the first record, in loop order, that lacks a key the loop    *)
(* reads stops the loop.                                                   *)

Without(tx, key) == [f \in (DOMAIN tx) \ {key} |-> tx[f]]

(* the index of the first record lacking one of the keys, 0 if there is none *)
FirstLacking(txs, keys) ==
    IF \E k \in DOMAIN txs : ~(keys \subseteq DOMAIN txs[k])
    THEN CHOOSE k \in DOMAIN txs :
             /\ ~(keys \subseteq DOMAIN txs[k])
             /\ \A j \in 1..(k - 1) : keys \subseteq DOMAIN txs[j]
    ELSE 0

(* keys read by TransactionPatternAnalyzer._build_graph (line 24) *)
AnalyzerKeys == {"from", "to", "tx_id", "amount", "timestamp", "price"}

(* WalletRelationshipMapping._build_fast_lookups: the three loops in turn; *)
(* an index the method did not reach stays unset (empty here)              *)
_build_fast_lookups(txs) ==
    LET k1 == FirstLacking(txs, {"from", "to"})
        k3 == FirstLacking(txs, {"from", "gas"})
    IN  IF k1 > 0
        THEN [raised |-> "KeyError",
              _tx_lookup |-> TxLookup(SubSeq(txs, 1, k1 - 1)),
              _partners_cache |-> <<>>,
              _gas_map_cache |-> <<>>]
        ELSE IF k3 > 0
        THEN [raised |-> "KeyError",
              _tx_lookup |-> TxLookup(txs),
              _partners_cache |-> PartnersCache(txs),
              _gas_map_cache |-> GasMapCache(SubSeq(txs, 1, k3 - 1))]
        ELSE [raised |-> "none",
              _tx_lookup |-> TxLookup(txs),
              _partners_cache |-> PartnersCache(txs),
              _gas_map_cache |-> GasMapCache(txs)]

-----------------------------------------------------------------------------
(* Initial state: both objects are being constructed from the same batch.  *)
(* The analyzer's constructor has run: it built the graph or raised        *)
(* KeyError (no analyzer object, None here).  The mapper has run lines     *)
(* 21-31 of __init__: if _build_fast_lookups raised there is no mapper     *)
(* object, otherwise its constructing thread (thread 0) enters             *)
(* _build_transaction_graph (line 32).  The contract service is            *)
(* constructed (contractService.py lines 15-17).                           *)

Threads == 0..NumThreads
Ctor == 0
NoCall == [op |-> "none", args |-> <<>>, result |-> <<>>]
NoStage == [op |-> "none", args |-> <<>>, wallets |-> <<>>]

(* no parallel stage is in progress *)
PoolIdle ==
    /\ stage = NoStage
    /\ futures = <<>>
    /\ similar_pairs = <<>>

(* ContractService.__init__ *)
ServiceInit ==
    /\ contract_id = "None"
    /\ contract = None
    /\ successful_swaps = 0

(* the objects constructed from self.transactions *)
InitObjects ==
    /\ analyzer_graph = IF FirstLacking(transactions, AnalyzerKeys) > 0 THEN None
                        ELSE _build_graph(transactions)
    /\ LET lookups == _build_fast_lookups(transactions)
           ok == lookups.raised = "none"
       IN  /\ _tx_lookup = lookups._tx_lookup
           /\ _partners_cache = lookups._partners_cache
           /\ _gas_map_cache = lookups._gas_map_cache
           /\ pc = [t \in Threads |-> IF t # Ctor THEN "idle"
                                      ELSE IF ok THEN "acquire" ELSE "raised"]
           /\ arg = [t \in Threads |-> IF t = Ctor /\ ok THEN transactions ELSE <<>>]
           /\ calls = [t \in Threads |-> IF t = Ctor /\ ok THEN 1 ELSE 0]
    /\ _graph_cache = None
    /\ _graph_cache_lock = {}
    /\ graph = None
    /\ wallet_clusters = <<>>
    /\ relationship_scores = <<>>
    /\ ret = [t \in Threads |-> None]
    /\ graphs_built = 0
    /\ lastCall = NoCall
    /\ PoolIdle
    /\ ServiceInit

(* the state after both constructors have returned, for a batch whose     *)
(* records have every key: thread 0 has built and assigned the graph       *)
InitConstructed ==
    LET G == MultiAddEdges(EmptyMultiDiGraph(1), transactions)
    IN  /\ analyzer_graph = _build_graph(transactions)
        /\ _tx_lookup = TxLookup(transactions)
        /\ _partners_cache = PartnersCache(transactions)
        /\ _gas_map_cache = GasMapCache(transactions)
        /\ _graph_cache = G
        /\ _graph_cache_lock = {}
        /\ graph = G
        /\ wallet_clusters = <<>>
        /\ relationship_scores = <<>>
        /\ pc = [t \in Threads |-> IF t = Ctor THEN "constructed" ELSE "idle"]
        /\ arg = [t \in Threads |-> IF t = Ctor THEN transactions ELSE <<>>]
        /\ ret = [t \in Threads |-> IF t = Ctor THEN G ELSE None]
        /\ calls = [t \in Threads |-> IF t = Ctor THEN 1 ELSE 0]
        /\ graphs_built = 1
        /\ lastCall = NoCall
        /\ PoolIdle
        /\ ServiceInit

InitWith(n, w) ==
    /\ \E k \in 0..n : \E e \in EndpointSeqs(2 * k, w) : transactions = BatchOf(e)
    /\ InitObjects

Init == InitWith(MaxTx, NumWallets)

-----------------------------------------------------------------------------
(* WalletRelationshipMapping._build_transaction_graph, per thread *)

(* A batch other than the mapper's own: one more transfer *)
OtherBatch == Append(transactions, MkTx(Len(transactions) + 1, 1, 2))

BuildArgs == {transactions, OtherBatch}

(* a thread other than the constructor calls on the constructed mapper *)
CallBuild(t, b) ==
    /\ t # Ctor
    /\ graph # None
    /\ pc[t] = "idle"
    /\ calls[t] < MaxCalls
    /\ pc' = [pc EXCEPT ![t] = "acquire"]
    /\ arg' = [arg EXCEPT ![t] = b]
    /\ calls' = [calls EXCEPT ![t] = @ + 1]
    /\ UNCHANGED <<serviceVars, transactions, analyzer_graph, mapperVars, ret, graphs_built,
                   lastCall, poolVars>>

(* line 35: with self._graph_cache_lock *)
AcquireLock(t) ==
    /\ pc[t] = "acquire"
    /\ _graph_cache_lock = {}
    /\ _graph_cache_lock' = {t}
    /\ pc' = [pc EXCEPT ![t] = "locked"]
    /\ UNCHANGED <<serviceVars, transactions, analyzer_graph, _tx_lookup, _partners_cache,
                   _gas_map_cache, _graph_cache, graph, wallet_clusters,
                   relationship_scores, arg, ret, calls, graphs_built, lastCall, poolVars>>

(* Variant: the cache test is missing, every call builds *)
CacheIsSet_never(batch) == FALSE

(* Variant: the cache is only used for the batch the mapper was built from *)
CacheIsSet_same_batch(batch) == _graph_cache # None /\ batch = transactions

(* line 36: if self._graph_cache is not None; the batch passed is not looked at *)
CacheIsSet(batch) == _graph_cache # None

(* lines 36-42, under the lock; leaving the with block releases it *)
BuildUnderLock(t) ==
    /\ pc[t] = "locked"
    /\ _graph_cache_lock = {t}
    /\ IF CacheIsSet(arg[t])
       THEN /\ ret' = [ret EXCEPT ![t] = _graph_cache]
            /\ UNCHANGED <<_graph_cache, graphs_built>>
       ELSE LET G == MultiAddEdges(EmptyMultiDiGraph(graphs_built + 1), arg[t])
            IN  /\ graphs_built' = graphs_built + 1
                /\ _graph_cache' = G
                /\ ret' = [ret EXCEPT ![t] = G]
    /\ _graph_cache_lock' = {}
    /\ pc' = [pc EXCEPT ![t] = "done"]
    /\ UNCHANGED <<serviceVars, transactions, analyzer_graph, _tx_lookup, _partners_cache,
                   _gas_map_cache, graph, wallet_clusters, relationship_scores,
                   arg, calls, lastCall, poolVars>>

(* line 32: self.graph = self._build_transaction_graph(transactions) *)
CtorAssignGraph ==
    /\ pc[Ctor] = "done"
    /\ graph = None
    /\ graph' = ret[Ctor]
    /\ pc' = [pc EXCEPT ![Ctor] = "constructed"]
    /\ UNCHANGED <<serviceVars, transactions, analyzer_graph, _tx_lookup, _partners_cache,
                   _gas_map_cache, _graph_cache, _graph_cache_lock, wallet_clusters,
                   relationship_scores, arg, ret, calls, graphs_built, lastCall, poolVars>>

(* a caller takes the returned graph and may call again *)
ReturnBuild(t) ==
    /\ t # Ctor
    /\ pc[t] = "done"
    /\ pc' = [pc EXCEPT ![t] = "idle"]
    /\ UNCHANGED <<serviceVars, transactions, analyzer_graph, mapperVars, arg, ret, calls,
                   graphs_built, lastCall, poolVars>>

Construct == AcquireLock(Ctor) \/ BuildUnderLock(Ctor) \/ CtorAssignGraph

NextBuild ==
    \/ \E t \in Threads : \E b \in BuildArgs : CallBuild(t, b)
    \/ \E t \in Threads : AcquireLock(t)
    \/ \E t \in Threads : BuildUnderLock(t)
    \/ CtorAssignGraph
    \/ \E t \in Threads : ReturnBuild(t)

SpecBuild == InitWith(MaxTxBuild, NumWallets) /\ [][NextBuild]_vars

-----------------------------------------------------------------------------
(* networkx algorithms used by WalletRelationshipMapping *)

IsNode(G, n) == Contains(G.nodes, n)

(* successors in the directed multigraph *)
Successors(G, n) == {G.edges[i].v : i \in {j \in DOMAIN G.edges : G.edges[j].u = n}}

(* Variant: clustering on the directed graph, to_undirected() forgotten *)
Neighbors_directed(G, n) == Successors(G, n)

(* neighbours in G.to_undirected() *)
Neighbors(G, n) ==
    Successors(G, n) \cup {G.edges[i].u : i \in {j \in DOMAIN G.edges : G.edges[j].v = n}}

(* nx._plain_bfs: the nodes reachable from the frontier, ignoring direction *)
RECURSIVE _plain_bfs(_, _, _)
_plain_bfs(G, frontier, seen) ==
    IF frontier = {} THEN seen
    ELSE LET next == UNION {Neighbors(G, n) : n \in frontier} \ seen
         IN  _plain_bfs(G, next, seen \cup next)

(* nx.connected_components: one set per component, in node order *)
RECURSIVE ComponentsFrom(_, _, _)
ComponentsFrom(G, nodes, seen) ==
    IF nodes = <<>> THEN <<>>
    ELSE IF Head(nodes) \in seen THEN ComponentsFrom(G, Tail(nodes), seen)
    ELSE LET c == _plain_bfs(G, {Head(nodes)}, {Head(nodes)})
         IN  <<c>> \o ComponentsFrom(G, Tail(nodes), seen \cup c)

(* Variant: a graph without nodes yields one component, the empty set *)
connected_components_never_empty(G) ==
    IF G.nodes = <<>> THEN <<{}>> ELSE ComponentsFrom(G, G.nodes, {})

connected_components(G) == ComponentsFrom(G, G.nodes, {})

(* breadth-first search along edge direction: the distance from the        *)
(* frontier (at distance d) to target, or -1 when target is unreachable    *)
RECURSIVE BfsDistance(_, _, _, _, _)
BfsDistance(G, frontier, seen, target, d) ==
    IF target \in frontier THEN d
    ELSE IF frontier = {} THEN -1
    ELSE LET next == UNION {Successors(G, n) : n \in frontier} \ seen
         IN  BfsDistance(G, next, seen \cup next, target, d + 1)

(* nx.shortest_path_length(G, source, target), unweighted *)
shortest_path_length(G, source, target) ==
    IF ~IsNode(G, source) \/ ~IsNode(G, target)
    THEN [raised |-> "NodeNotFound", length |-> 0]
    ELSE LET d == BfsDistance(G, {source}, {source}, target, 0)
         IN  IF d < 0 THEN [raised |-> "NetworkXNoPath", length |-> 0]
             ELSE [raised |-> "none", length |-> d]

-----------------------------------------------------------------------------
(* WalletRelationshipMapping.cluster_wallets and score_relationships *)

(* The iteration order of a Python set of wallet ids depends on the        *)
(* process's string hashing: it is arbitrary, but the same for equal sets  *)
(* built the same way within one process.  A cluster is kept as the        *)
(* listing of its set in iteration order.                                  *)
ClusterListings(comps) ==
    IF wallet_clusters = <<>>
    THEN LET RECURSIVE Choices(_)
             Choices(cs) ==
                 IF cs = <<>> THEN {<<>>}
                 ELSE {<<l>> \o rest : l \in Listings(Head(cs)), rest \in Choices(Tail(cs))}
         IN  Choices(comps)
    ELSE LET order == FlattenSeq(wallet_clusters)
         IN  {[k \in DOMAIN comps |-> SelectSeq(order, LAMBDA w : w \in comps[k])]}

cluster_wallets ==
    /\ graph # None
    /\ \E clusters \in ClusterListings(connected_components(graph)) :
           /\ wallet_clusters' = clusters
           /\ lastCall' = [op |-> "cluster_wallets", args |-> <<>>, result |-> clusters]
    /\ UNCHANGED <<serviceVars, transactions, analyzer_graph, _tx_lookup, _partners_cache,
                   _gas_map_cache, _graph_cache, _graph_cache_lock, graph,
                   relationship_scores, threadVars>>

(* dict.get(key, []) *)
GetOrEmpty(d, key) == IF key \in DOMAIN d THEN d[key] ELSE <<>>

_historical_evolution_score(txs) ==
    IF txs = <<>> THEN FZero
    ELSE LET times == {txs[i].timestamp : i \in DOMAIN txs}
         IN  IF Len(txs) < 2 THEN Frac(1, 10)
             ELSE LET hi == CHOOSE t \in times : \A x \in times : x <= t
                      lo == CHOOSE t \in times : \A x \in times : t <= x
                  IN  FMin(FOne, Frac(hi - lo, 60 * 60 * 24 * 30))

(* Variant: nx.NodeNotFound is not caught *)
_multi_hop_score_uncaught(G, w1, w2, max_hops) ==
    LET r == shortest_path_length(G, w1, w2)
    IN  IF r.raised = "NetworkXNoPath" THEN [raised |-> "none", value |-> FZero]
        ELSE IF r.raised = "NodeNotFound" THEN [raised |-> "NodeNotFound", value |-> FZero]
        ELSE IF r.length = 1 THEN [raised |-> "none", value |-> FZero]
        ELSE IF r.length <= max_hops
             THEN [raised |-> "none", value |-> FSub(FOne, Frac(r.length - 1, max_hops))]
        ELSE [raised |-> "none", value |-> FZero]

_multi_hop_score(G, w1, w2, max_hops) ==
    LET r == shortest_path_length(G, w1, w2)
    IN  IF r.raised = "NetworkXNoPath" THEN [raised |-> "none", value |-> FZero]
        ELSE IF r.raised = "NodeNotFound" THEN [raised |-> "none", value |-> FZero]
        ELSE IF r.length = 1 THEN [raised |-> "none", value |-> FZero]
        ELSE IF r.length <= max_hops
             THEN [raised |-> "none", value |-> FSub(FOne, Frac(r.length - 1, max_hops))]
        ELSE [raised |-> "none", value |-> FZero]

ChainsOf(txs, w) == {txs[i].chain : i \in {j \in DOMAIN txs : txs[j].from = w \/ txs[j].to = w}}

_cross_chain_score(txs, w1, w2) ==
    IF ChainsOf(txs, w1) \cap ChainsOf(txs, w2) # {} THEN FOne ELSE FZero

(* Variant: the inner loop starts at i instead of i + 1 *)
ClusterPairs_from_i(cluster) ==
    FlattenSeq([i \in DOMAIN cluster |->
        [d \in 1..(Len(cluster) - i + 1) |-> <<cluster[i], cluster[i + d - 1]>>]])

(* lines 150-152: the pairs (cluster[i], cluster[j]), i < j, in loop order *)
ClusterPairs(cluster) ==
    FlattenSeq([i \in DOMAIN cluster |->
        [d \in 1..(Len(cluster) - i) |-> <<cluster[i], cluster[i + d]>>]])

(* Variant: every pair of clustered wallets is scored, whatever its cluster *)
ScoredPairs_all_wallets(clusters) == ClusterPairs(FlattenSeq(clusters))

ScoredPairs(clusters) == FlattenSeq([k \in DOMAIN clusters |-> ClusterPairs(clusters[k])])

(* Variant: only the transactions from w1 to w2 *)
PairTransactions_one_way(w1, w2) == GetOrEmpty(_tx_lookup, <<w1, w2>>)

(* line 153: the transactions between the two wallets, in both directions *)
PairTransactions(w1, w2) ==
    GetOrEmpty(_tx_lookup, <<w1, w2>>) \o GetOrEmpty(_tx_lookup, <<w2, w1>>)

(* lines 153-165: the entry stored for (w1, w2) *)
ScoreEntry(w1, w2) ==
    LET txs == PairTransactions(w1, w2)
    IN  [confidence |-> FMin(FOne, Frac(Len(txs), 5)),
         strength |-> FMin(FOne, Frac(SumSeq([i \in DOMAIN txs |-> txs[i].value]), 100)),
         historical_evolution |-> _historical_evolution_score(txs),
         multi_hop |-> _multi_hop_score(graph, w1, w2, default_max_hops).value,
         cross_chain |-> _cross_chain_score(transactions, w1, w2)]

(* scores[(w1, w2)] = {...}: a later write to the same key replaces the entry *)
RECURSIVE StoreScores(_, _)
StoreScores(scores, pairs) ==
    IF pairs = <<>> THEN scores
    ELSE LET key == Head(pairs)
             put == [p \in (DOMAIN scores) \cup {key} |->
                        IF p = key THEN ScoreEntry(key[1], key[2]) ELSE scores[p]]
         IN  StoreScores(put, Tail(pairs))

(* the keys lines 155, 173 and 194-195 read for the pair (w1, w2): 'value' *)
(* and 'timestamp' of the transactions between the two wallets, 'chain' of *)
(* every transaction that touches one of them                              *)
PairRaisesKeyError(w1, w2) ==
    LET txs == GetOrEmpty(_tx_lookup, <<w1, w2>>) \o GetOrEmpty(_tx_lookup, <<w2, w1>>)
        touching == SelectSeq(transactions, LAMBDA tx :
                        tx.from \in {w1, w2} \/ tx.to \in {w1, w2})
    IN  \/ FirstLacking(txs, {"value"}) > 0
        \/ FirstLacking(txs, {"timestamp"}) > 0
        \/ FirstLacking(touching, {"chain"}) > 0

(* the keys line 153 looks up for the pairs: (w1, w2) and (w2, w1) *)
LookupKeys(pairs) ==
    {pairs[i] : i \in DOMAIN pairs} \cup {<<pairs[i][2], pairs[i][1]>> : i \in DOMAIN pairs}

(* the pairs the loop reaches: all of them, or those up to the first that  *)
(* raises KeyError                                                         *)
PairsReached(pairs) ==
    IF \E i \in DOMAIN pairs : PairRaisesKeyError(pairs[i][1], pairs[i][2])
    THEN SubSeq(pairs, 1, CHOOSE i \in DOMAIN pairs :
                              /\ PairRaisesKeyError(pairs[i][1], pairs[i][2])
                              /\ \A j \in 1..(i - 1) :
                                    ~PairRaisesKeyError(pairs[j][1], pairs[j][2]))
    ELSE pairs

(* Variant: the scorer clusters the graph itself *)
ClustersScored_computed ==
    CHOOSE clusters \in ClusterListings(connected_components(graph)) : TRUE

(* line 148: for cluster in self.wallet_clusters *)
ClustersScored == wallet_clusters

(* lines 145-168; a KeyError leaves the loop before line 166.  writes is   *)
(* the sequence of keys that line 159 assigned                             *)
score_relationships ==
    /\ graph # None
    /\ LET pairs == ScoredPairs(ClustersScored)
       IN  /\ IF \E i \in DOMAIN pairs : PairRaisesKeyError(pairs[i][1], pairs[i][2])
              THEN /\ UNCHANGED relationship_scores
                   /\ lastCall' = [op |-> "score_relationships", args |-> <<>>,
                                   result |-> <<>>, raised |-> "KeyError"]
              ELSE LET scores == StoreScores(<<>>, pairs)
                   IN  /\ relationship_scores' = scores
                       /\ lastCall' = [op |-> "score_relationships", args |-> <<>>,
                                       result |-> scores, raised |-> "none",
                                       writes |-> pairs]
           /\ _tx_lookup' = AfterGets(_tx_lookup, LookupKeys(PairsReached(pairs)), <<>>)
    /\ UNCHANGED <<serviceVars, transactions, analyzer_graph, _partners_cache,
                   _gas_map_cache, _graph_cache, _graph_cache_lock, graph,
                   wallet_clusters, threadVars>>

NextMapper == Construct \/ cluster_wallets \/ score_relationships

SpecMapper == InitWith(MaxTx, NumWalletsMapper) /\ [][NextMapper]_vars

-----------------------------------------------------------------------------
(* The other stages of WalletRelationshipMapping: they read the indices    *)
(* and the batch and change no field but the profiling times.              *)

(* lines 59-66 *)
identify_common_funding_sources(txs) ==
    [w \in {txs[k].from : k \in DOMAIN txs} |->
        {txs[k].to : k \in {i \in DOMAIN txs : txs[i].from = w}}]

(* list(partners.keys()): lines 51-53 insert 'from' then 'to' of each record *)
PartnerKeys(txs) ==
    KeysInOrder(FlattenSeq([k \in DOMAIN txs |-> <<txs[k].from, txs[k].to>>]))

(* list(gas_map.keys()): line 57 inserts the 'from' of each record *)
GasKeys(txs) == KeysInOrder([k \in DOMAIN txs |-> txs[k].from])

(* Variant: strictly more than min_shared_partners shared partners *)
SharesPartners_strictly(partners, a, b, min_shared_partners) ==
    Cardinality(partners[a] \cap partners[b]) > min_shared_partners

(* line 82 *)
SharesPartners(partners, a, b, min_shared_partners) ==
    Cardinality(partners[a] \cap partners[b]) >= min_shared_partners

(* find_similar(i), lines 79-84 *)
find_similar(partners, wallets, i, min_shared_partners) ==
    LET later == [d \in 1..(Len(wallets) - i) |-> <<wallets[i], wallets[i + d]>>]
    IN  SelectSeq(later, LAMBDA pair :
            SharesPartners(partners, pair[1], pair[2], min_shared_partners))

(* Variant: the overlap must exceed the threshold *)
OverlapReaches_strictly(both, all, tn, td) == both * td > tn * all

(* lines 126-127: both / all >= gas_threshold, with gas_threshold = tn / td *)
OverlapReaches(both, all, tn, td) == both * td >= tn * all

(* find_gas_pairs(i), lines 120-129, with gas_threshold = tn / td *)
find_gas_pairs(gas_map, wallets, i, tn, td) ==
    LET later == [d \in 1..(Len(wallets) - i) |-> <<wallets[i], wallets[i + d]>>]
        overlaps(pair) ==
            LET g1 == gas_map[pair[1]]
                g2 == gas_map[pair[2]]
                both == Cardinality(Range(g1) \cap Range(g2))
                all == Cardinality(Range(g1 \o g2))
            IN  /\ Len(g1) > 0
                /\ Len(g2) > 0
                /\ OverlapReaches(both, Max2(all, 1), tn, td)
    IN  SelectSeq(later, overlaps)

(* for f in as_completed(futures): similar_pairs.extend(f.result()).  The  *)
(* futures complete in any order; a future with an empty result adds       *)
(* nothing, so the lists that can be returned are the concatenations of    *)
(* the non-empty results in every order.                                   *)
CompletionOrders(results) ==
    {FlattenSeq([k \in DOMAIN order |-> results[order[k]]]) :
        order \in Listings({i \in DOMAIN results : results[i] # <<>>})}

(* lines 74-90: the lists the call can return *)
behavioral_similarity_detection(partners, wallets, min_shared_partners) ==
    CompletionOrders([i \in DOMAIN wallets |->
                         find_similar(partners, wallets, i, min_shared_partners)])

(* lines 115-135: the lists the call can return *)
gas_payment_relationship_analysis(gas_map, wallets, tn, td) ==
    CompletionOrders([i \in DOMAIN wallets |-> find_gas_pairs(gas_map, wallets, i, tn, td)])

(* Variant: the window is measured from the last transaction absorbed *)
RECURSIVE AbsorbEnd_rebased(_, _, _, _)
AbsorbEnd_rebased(tx_by_time, t0, j, time_window_seconds) ==
    IF j <= Len(tx_by_time) /\ tx_by_time[j].timestamp - t0 <= time_window_seconds
    THEN AbsorbEnd_rebased(tx_by_time, tx_by_time[j].timestamp, j + 1, time_window_seconds)
    ELSE j

(* lines 105-109: the value of j when the inner loop ends *)
RECURSIVE AbsorbEnd(_, _, _, _)
AbsorbEnd(tx_by_time, t0, j, time_window_seconds) ==
    IF j <= Len(tx_by_time) /\ tx_by_time[j].timestamp - t0 <= time_window_seconds
    THEN AbsorbEnd(tx_by_time, t0, j + 1, time_window_seconds)
    ELSE j

(* lines 99-112: the groups formed, as the wallet set of each and the      *)
(* timestamps of the transactions it absorbed, before the size filter      *)
RECURSIVE TemporalGroups(_, _, _)
TemporalGroups(tx_by_time, i, time_window_seconds) ==
    IF i > Len(tx_by_time) THEN <<>>
    ELSE LET j == AbsorbEnd(tx_by_time, tx_by_time[i].timestamp, i + 1, time_window_seconds)
             group == {tx_by_time[k].from : k \in i..(j - 1)}
                      \cup {tx_by_time[k].to : k \in i..(j - 1)}
         IN  <<group>> \o TemporalGroups(tx_by_time, j, time_window_seconds)

(* lines 99-112: the transactions each group absorbed, from i to j - 1 *)
RECURSIVE TemporalMembers(_, _, _)
TemporalMembers(tx_by_time, i, time_window_seconds) ==
    IF i > Len(tx_by_time) THEN <<>>
    ELSE LET j == AbsorbEnd(tx_by_time, tx_by_time[i].timestamp, i + 1, time_window_seconds)
         IN  <<SubSeq(tx_by_time, i, j - 1)>>
             \o TemporalMembers(tx_by_time, j, time_window_seconds)

(* Variant: a group of two wallets is appended too *)
AppendsGroup_two_wallets(group) == Cardinality(group) >= 2

(* line 110: if len(group) > 2 *)
AppendsGroup(group) == Cardinality(group) > 2

(* lines 92-113 *)
temporal_coordination_patterns(txs, time_window_seconds) ==
    SelectSeq(TemporalGroups(sorted_by_timestamp(txs), 1, time_window_seconds),
              AppendsGroup)

Call_identify_common_funding_sources ==
    /\ graph # None
    /\ lastCall.op = "none"
    /\ lastCall' = [op |-> "identify_common_funding_sources", args |-> <<>>,
                    result |-> identify_common_funding_sources(transactions)]
    /\ UNCHANGED <<serviceVars, fraudVars>>

Call_behavioral_similarity_detection(min_shared_partners) ==
    /\ graph # None
    /\ lastCall.op = "none"
    /\ \E returned \in behavioral_similarity_detection(
                                _partners_cache, PartnerKeys(transactions),
                                min_shared_partners) :
           lastCall' = [op |-> "behavioral_similarity_detection",
                        args |-> <<min_shared_partners>>, result |-> returned]
    /\ UNCHANGED <<serviceVars, fraudVars>>

Call_temporal_coordination_patterns(time_window_seconds) ==
    /\ graph # None
    /\ lastCall.op = "none"
    /\ lastCall' = [op |-> "temporal_coordination_patterns",
                    args |-> <<time_window_seconds>>,
                    result |-> temporal_coordination_patterns(transactions,
                                                              time_window_seconds),
                    groups |-> TemporalGroups(sorted_by_timestamp(transactions), 1,
                                              time_window_seconds),
                    members |-> TemporalMembers(sorted_by_timestamp(transactions), 1,
                                                time_window_seconds)]
    /\ UNCHANGED <<serviceVars, fraudVars>>

(* the default of gas_threshold, 0.9 (line 115) *)
default_gas_threshold == Frac(9, 10)

Call_gas_payment_relationship_analysis(gas_threshold) ==
    /\ graph # None
    /\ lastCall.op = "none"
    /\ \E pairs \in gas_payment_relationship_analysis(
                        _gas_map_cache, GasKeys(transactions),
                        gas_threshold.num, gas_threshold.den) :
           lastCall' = [op |-> "gas_payment_relationship_analysis",
                        args |-> <<gas_threshold>>, result |-> pairs]
    /\ UNCHANGED <<serviceVars, fraudVars>>

(* The caller of a detector or helper (a method that changes no field)     *)
(* takes the returned value; lastCall holds the value until then.          *)
TakeResult ==
    /\ lastCall.op # "none"
    /\ lastCall' = NoCall
    /\ UNCHANGED <<serviceVars, transactions, analyzer_graph, mapperVars, threadVars>>

(* a direct call of the helper, with any two wallet ids *)
Call__multi_hop_score(w1, w2, max_hops) ==
    /\ graph # None
    /\ lastCall.op = "none"
    /\ lastCall' = [op |-> "_multi_hop_score", args |-> <<w1, w2, max_hops>>,
                    result |-> _multi_hop_score(graph, w1, w2, max_hops)]
    /\ UNCHANGED <<serviceVars, transactions, analyzer_graph, mapperVars, threadVars>>

NextHelper ==
    \/ Construct
    \/ \E w1 \in Wallets, w2 \in Wallets, h \in 1..MaxHopsArg : Call__multi_hop_score(w1, w2, h)
    \/ TakeResult

SpecHelper == Init /\ [][NextHelper]_vars

-----------------------------------------------------------------------------
(* The two parallel stages step by step (lines 74-90 and 115-135): the     *)
(* calling thread submits one unit per wallet index to a                   *)
(* ThreadPoolExecutor, the worker threads run the units, the calling       *)
(* thread extends its result list with each future's result as the         *)
(* futures complete, and returns when as_completed is exhausted.           *)

(* lines 75-78 and 85-86, 116-119 and 130-131 *)
Submit(op, args, wallets) ==
    /\ graph # None
    /\ lastCall.op = "none"
    /\ stage.op = "none"
    /\ stage' = [op |-> op, args |-> args, wallets |-> wallets]
    /\ futures' = [i \in DOMAIN wallets |->
                      [state |-> "pending", local_pairs |-> <<>>, yielded |-> FALSE]]
    /\ similar_pairs' = <<>>
    /\ UNCHANGED <<serviceVars, transactions, analyzer_graph, mapperVars, pc, arg, ret,
                   calls, graphs_built, lastCall>>

(* the keys unit i subscripts in the partner index (line 82, inside the    *)
(* loop over j) and in the fee index (line 122, then line 124)             *)
UnitReads(op, wallets, i) ==
    IF op = "behavioral_similarity_detection" /\ i = Len(wallets) THEN {}
    ELSE {wallets[j] : j \in i..Len(wallets)}

(* a worker thread runs find_similar(i) or find_gas_pairs(i); the indices  *)
(* are defaultdicts, which the unit subscripts                             *)
RunUnit(i) ==
    /\ stage.op # "none"
    /\ i \in DOMAIN futures
    /\ futures[i].state = "pending"
    /\ IF stage.op = "behavioral_similarity_detection"
       THEN /\ futures' = [futures EXCEPT
                    ![i].state = "finished",
                    ![i].local_pairs = find_similar(_partners_cache, stage.wallets, i,
                                                    stage.args[1])]
            /\ _partners_cache' =
                   Subscripted(_partners_cache, UnitReads(stage.op, stage.wallets, i), {})
            /\ UNCHANGED _gas_map_cache
       ELSE /\ futures' = [futures EXCEPT
                    ![i].state = "finished",
                    ![i].local_pairs = find_gas_pairs(_gas_map_cache, stage.wallets, i,
                                                      stage.args[1].num, stage.args[1].den)]
            /\ _gas_map_cache' =
                   Subscripted(_gas_map_cache, UnitReads(stage.op, stage.wallets, i), <<>>)
            /\ UNCHANGED _partners_cache
    /\ UNCHANGED <<serviceVars, transactions, analyzer_graph, _tx_lookup, _graph_cache,
                   _graph_cache_lock, graph, wallet_clusters, relationship_scores,
                   pc, arg, ret, calls, graphs_built, lastCall, stage, similar_pairs>>

(* Variant: a future is yielded whether or not its unit has finished *)
as_completed_unfinished(fs) == {i \in DOMAIN fs : ~fs[i].yielded}

(* as_completed(futures): the futures it can yield next, those that have   *)
(* finished and were not yielded yet                                       *)
as_completed(fs) == {i \in DOMAIN fs : fs[i].state = "finished" /\ ~fs[i].yielded}

(* lines 87-88 (132-133), one iteration, in the calling thread *)
MergeResult(i) ==
    /\ stage.op # "none"
    /\ i \in as_completed(futures)
    /\ similar_pairs' = similar_pairs \o futures[i].local_pairs
    /\ futures' = [futures EXCEPT ![i].yielded = TRUE]
    /\ UNCHANGED <<serviceVars, transactions, analyzer_graph, mapperVars, pc, arg, ret,
                   calls, graphs_built, lastCall, stage>>

(* Variant: the loop ends as soon as one future has been yielded *)
Exhausted_after_first(fs) == fs = <<>> \/ \E i \in DOMAIN fs : fs[i].yielded

(* the for loop over as_completed(futures) ends when every future has been *)
(* yielded                                                                 *)
Exhausted(fs) == \A i \in DOMAIN fs : fs[i].yielded

(* lines 89-90 (134-135) *)
ReturnStage ==
    /\ stage.op # "none"
    /\ Exhausted(futures)
    /\ lastCall' = [op |-> stage.op, args |-> stage.args, result |-> similar_pairs]
    /\ stage' = NoStage
    /\ futures' = <<>>
    /\ similar_pairs' = <<>>
    /\ UNCHANGED <<serviceVars, transactions, analyzer_graph, mapperVars, pc, arg, ret,
                   calls, graphs_built>>

Start_behavioral_similarity_detection(min_shared_partners) ==
    Submit("behavioral_similarity_detection", <<min_shared_partners>>,
           PartnerKeys(transactions))

Start_gas_payment_relationship_analysis(gas_threshold) ==
    Submit("gas_payment_relationship_analysis", <<gas_threshold>>, GasKeys(transactions))

-----------------------------------------------------------------------------
(* TransactionPatternAnalyzer detectors *)

(* nx.simple_cycles: every elementary circuit once, listed from its first  *)
(* node in node order; a self-loop is a circuit of length 1.  The order of *)
(* the list and the rotation of each circuit are the library's.            *)
PositionOf(nodes, n) == CHOOSE i \in DOMAIN nodes : nodes[i] = n

RECURSIVE CircuitsFrom(_, _, _)
CircuitsFrom(G, root, path) ==
    LET last == path[Len(path)]
        step(v) ==
            IF v = root THEN <<path>>
            ELSE IF PositionOf(G.nodes, v) > PositionOf(G.nodes, root) /\ ~Contains(path, v)
                 THEN CircuitsFrom(G, root, Append(path, v))
            ELSE <<>>
    IN  FlattenSeq([j \in DOMAIN G.succ[last] |-> step(G.succ[last][j])])

simple_cycles(G) ==
    FlattenSeq([i \in DOMAIN G.nodes |-> CircuitsFrom(G, G.nodes[i], <<G.nodes[i]>>)])

(* Variant: the lower bound of the length filter is inclusive *)
detect_circular_trading_from_2(G, max_cycle_length) ==
    SelectSeq(simple_cycles(G), LAMBDA cycle : 2 <= Len(cycle) /\ Len(cycle) <= max_cycle_length)

detect_circular_trading(G, max_cycle_length) ==
    SelectSeq(simple_cycles(G), LAMBDA cycle : 2 < Len(cycle) /\ Len(cycle) <= max_cycle_length)

detect_self_dealing(G) == SelectSeq(G.nodes, LAMBDA node : has_edge(G, node, node))

(* Variant: only the u-to-v direction is tested *)
detect_ping_pong_trading_one_way(G, min_count) ==
    SelectSeq(DiEdges(G), LAMBDA e : number_of_edges(G, e[1], e[2]) >= min_count)

detect_ping_pong_trading(G, min_count) ==
    SelectSeq(DiEdges(G), LAMBDA e :
        /\ has_edge(G, e[2], e[1])
        /\ number_of_edges(G, e[1], e[2]) >= min_count
        /\ number_of_edges(G, e[2], e[1]) >= min_count)

(* np.mean of a list of integers; of an empty list it is nan *)
Mean(xs) == IF xs = <<>> THEN "nan" ELSE Frac(SumSeq(xs), Len(xs))

(* Variant: a pair with no interval counts as regular *)
IsRegular_vacuously(intervals, interval_threshold) ==
    \A i \in DOMAIN intervals :
        intervals[i] = intervals[1] /\ intervals[i] < interval_threshold

(* line 64.  The timestamps are integers, so np.std(intervals) < 1e-3      *)
(* exactly when all intervals are equal, and np.mean is then that interval *)
IsRegular(intervals, interval_threshold) ==
    /\ intervals # <<>>
    /\ \A i \in DOMAIN intervals : intervals[i] = intervals[1]
    /\ intervals[1] < interval_threshold

(* lines 54-66 *)
detect_suspicious_timing(txs, interval_threshold) ==
    LET pairs == KeysInOrder([k \in DOMAIN txs |-> <<txs[k].from, txs[k].to>>])
        times(pair) ==
            LET mine == SelectSeq(txs, LAMBDA tx : <<tx.from, tx.to>> = pair)
            IN  SortedNumbers([i \in DOMAIN mine |-> mine[i].timestamp])
        intervals(pair) ==
            [i \in 1..(Len(times(pair)) - 1) |-> times(pair)[i + 1] - times(pair)[i]]
        regular(pair) == IsRegular(intervals(pair), interval_threshold)
        hits == SelectSeq(pairs, regular)
    IN  [i \in DOMAIN hits |->
            [pair |-> hits[i], interval |-> Mean(intervals(hits[i])),
             count |-> Len(times(hits[i]))]]

(* lines 68-76, with price_threshold = tn / td; avg_price is sum / n, so   *)
(* abs(price - avg) > threshold * avg is compared after multiplying by     *)
(* n * td.  price % 1 == 0 holds for every whole price.                    *)
detect_unusual_price_patterns(txs, tn, td) ==
    LET sum == SumSeq([i \in DOMAIN txs |-> txs[i].price])
        n == Len(txs)
    IN  SelectSeq(txs, LAMBDA tx :
            \/ tx.price % 1 = 0
            \/ Abs(tx.price * n - sum) * td > tn * sum)

(* directed reachability in the DiGraph *)
RECURSIVE DiReach(_, _, _)
DiReach(G, frontier, seen) ==
    IF frontier = {} THEN seen
    ELSE LET next == UNION {Range(G.succ[n]) : n \in frontier} \ seen
         IN  DiReach(G, next, seen \cup next)

(* nx.strongly_connected_components: the node sets; their order in the     *)
(* generator is the library's                                              *)
strongly_connected_components(G) ==
    {{m \in Range(G.nodes) : m \in DiReach(G, {n}, {n}) /\ n \in DiReach(G, {m}, {m})}
        : n \in Range(G.nodes)}

(* Variant: a transaction exactly 120 seconds old is evicted too *)
RECURSIVE PopExpired_inclusive(_, _)
PopExpired_inclusive(window, now) ==
    IF window # <<>> /\ now - Head(window).timestamp >= 120
    THEN PopExpired_inclusive(Tail(window), now)
    ELSE window

(* lines 87-98 *)
RECURSIVE PopExpired(_, _)
PopExpired(window, now) ==
    IF window # <<>> /\ now - Head(window).timestamp > 120
    THEN PopExpired(Tail(window), now)
    ELSE window

RECURSIVE SlideWindow(_, _)
SlideWindow(sorted_tx, window) ==
    IF sorted_tx = <<>> THEN <<>>
    ELSE LET tx == Head(sorted_tx)
             w == PopExpired(Append(window, tx), tx.timestamp)
         IN  (IF Len(w) > 3 THEN <<w>> ELSE <<>>) \o SlideWindow(Tail(sorted_tx), w)

temporal_sequence_detection(txs) == SlideWindow(sorted_by_timestamp(txs), <<>>)

(* lines 92-95: the window after each transaction has been appended and    *)
(* the front evicted                                                       *)
RECURSIVE WindowsAfterEach(_, _)
WindowsAfterEach(sorted_tx, window) ==
    IF sorted_tx = <<>> THEN <<>>
    ELSE LET tx == Head(sorted_tx)
             w == PopExpired(Append(window, tx), tx.timestamp)
         IN  <<w>> \o WindowsAfterEach(Tail(sorted_tx), w)

(* lines 100-111.  With mean = sum / n and std^2 = (n * squares - sum^2) / *)
(* n^2, abs(price - mean) / std > 2 is compared after squaring and         *)
(* multiplying by n^2.                                                     *)
statistical_anomaly_detection(txs) ==
    LET n == Len(txs)
        sum == SumSeq([i \in DOMAIN txs |-> txs[i].price])
        squares == SumSeq([i \in DOMAIN txs |-> txs[i].price * txs[i].price])
        nvar == n * squares - sum * sum
    IN  IF n < 2 THEN <<>>
        ELSE SelectSeq(txs, LAMBDA tx :
                 /\ nvar > 0
                 /\ (tx.price * n - sum) * (tx.price * n - sum) > 4 * nvar)

(* Variant: only the sender of a transaction is looked up in flagged *)
TouchesFlagged_sender_only(tx, flagged) == tx.from \in flagged

(* line 123: tx['from'] in flagged or tx['to'] in flagged *)
TouchesFlagged(tx, flagged) == tx.from \in flagged \/ tx.to \in flagged

(* lines 113-123 *)
rule_based_heuristic_evaluation(G, txs) ==
    LET cycles == detect_circular_trading(G, default_max_cycle_length)
        ping_pong == detect_ping_pong_trading(G, default_min_count)
        flagged == UNION {Range(cycles[i]) : i \in DOMAIN cycles}
                   \cup Range(detect_self_dealing(G))
                   \cup UNION {{ping_pong[i][1], ping_pong[i][2]} : i \in DOMAIN ping_pong}
    IN  SelectSeq(txs, LAMBDA tx : TouchesFlagged(tx, flagged))

Call_detect_circular_trading(max_cycle_length) ==
    /\ analyzer_graph # None
    /\ lastCall.op = "none"
    /\ lastCall' = [op |-> "detect_circular_trading", args |-> <<max_cycle_length>>,
                    result |-> detect_circular_trading(analyzer_graph, max_cycle_length)]
    /\ UNCHANGED <<serviceVars, transactions, analyzer_graph, mapperVars, threadVars>>

Call_detect_self_dealing ==
    /\ analyzer_graph # None
    /\ lastCall.op = "none"
    /\ lastCall' = [op |-> "detect_self_dealing", args |-> <<>>,
                    result |-> detect_self_dealing(analyzer_graph)]
    /\ UNCHANGED <<serviceVars, transactions, analyzer_graph, mapperVars, threadVars>>

Call_detect_ping_pong_trading(min_count) ==
    /\ analyzer_graph # None
    /\ lastCall.op = "none"
    /\ lastCall' = [op |-> "detect_ping_pong_trading", args |-> <<min_count>>,
                    result |-> detect_ping_pong_trading(analyzer_graph, min_count)]
    /\ UNCHANGED <<serviceVars, transactions, analyzer_graph, mapperVars, threadVars>>

Call_detect_suspicious_timing ==
    /\ analyzer_graph # None
    /\ lastCall.op = "none"
    /\ lastCall' = [op |-> "detect_suspicious_timing", args |-> <<default_interval_threshold>>,
                    result |-> detect_suspicious_timing(transactions,
                                                        default_interval_threshold)]
    /\ UNCHANGED <<serviceVars, fraudVars>>

(* price_threshold at its default, 0.1 *)
Call_detect_unusual_price_patterns ==
    /\ analyzer_graph # None
    /\ lastCall.op = "none"
    /\ lastCall' = [op |-> "detect_unusual_price_patterns", args |-> <<Frac(1, 10)>>,
                    result |-> detect_unusual_price_patterns(transactions, 1, 10)]
    /\ UNCHANGED <<serviceVars, fraudVars>>

(* lines 78-85; the components are kept as a set, their order is networkx's *)
Call_graph_based_relationship_analysis ==
    /\ analyzer_graph # None
    /\ lastCall.op = "none"
    /\ lastCall' = [op |-> "graph_based_relationship_analysis", args |-> <<>>,
                    result |-> [num_nodes |-> Len(analyzer_graph.nodes),
                                num_edges |-> Len(DiEdges(analyzer_graph)),
                                strongly_connected_components |->
                                    strongly_connected_components(analyzer_graph)]]
    /\ UNCHANGED <<serviceVars, fraudVars>>

Call_temporal_sequence_detection ==
    /\ analyzer_graph # None
    /\ lastCall.op = "none"
    /\ lastCall' = [op |-> "temporal_sequence_detection", args |-> <<>>,
                    result |-> temporal_sequence_detection(transactions),
                    windows |-> WindowsAfterEach(sorted_by_timestamp(transactions), <<>>)]
    /\ UNCHANGED <<serviceVars, fraudVars>>

Call_statistical_anomaly_detection ==
    /\ analyzer_graph # None
    /\ lastCall.op = "none"
    /\ lastCall' = [op |-> "statistical_anomaly_detection", args |-> <<>>,
                    result |-> statistical_anomaly_detection(transactions)]
    /\ UNCHANGED <<serviceVars, fraudVars>>

Call_rule_based_heuristic_evaluation ==
    /\ analyzer_graph # None
    /\ lastCall.op = "none"
    /\ lastCall' = [op |-> "rule_based_heuristic_evaluation", args |-> <<>>,
                    result |-> rule_based_heuristic_evaluation(analyzer_graph, transactions)]
    /\ UNCHANGED <<serviceVars, fraudVars>>

(* the detectors beside the three of NextAnalyzer *)
NextDetectors ==
    \/ Call_detect_suspicious_timing
    \/ Call_detect_unusual_price_patterns
    \/ Call_graph_based_relationship_analysis
    \/ Call_temporal_sequence_detection
    \/ Call_statistical_anomaly_detection
    \/ Call_rule_based_heuristic_evaluation
    \/ TakeResult

SpecDetectors == InitWith(MaxTxDetectors, NumWallets) /\ [][NextDetectors]_vars

NextAnalyzer ==
    \/ \E m \in 2..MaxCycleLength : Call_detect_circular_trading(m)
    \/ Call_detect_self_dealing
    \/ \E c \in 1..MaxMinCount : Call_detect_ping_pong_trading(c)
    \/ TakeResult

SpecAnalyzer == InitWith(MaxTxAnalyzer, NumWallets) /\ [][NextAnalyzer]_vars

-----------------------------------------------------------------------------
(* Every stage of the mapper and every detector of the analyzer, on the    *)
(* same batch *)

MinSharedPartnersArgs == 1..default_min_shared_partners

TimeWindows == {150, default_time_window_seconds}

NextStages ==
    \/ Construct
    \/ cluster_wallets
    \/ score_relationships
    \/ Call_identify_common_funding_sources
    \/ \E m \in MinSharedPartnersArgs : Call_behavioral_similarity_detection(m)
    \/ \E w \in TimeWindows : Call_temporal_coordination_patterns(w)
    \/ Call_gas_payment_relationship_analysis(default_gas_threshold)
    \/ \E m \in 2..MaxCycleLength : Call_detect_circular_trading(m)
    \/ Call_detect_self_dealing
    \/ \E c \in 1..MaxMinCount : Call_detect_ping_pong_trading(c)
    \/ Call_detect_suspicious_timing
    \/ Call_detect_unusual_price_patterns
    \/ Call_graph_based_relationship_analysis
    \/ Call_temporal_sequence_detection
    \/ Call_statistical_anomaly_detection
    \/ Call_rule_based_heuristic_evaluation
    \/ TakeResult

SpecStages == InitWith(MaxTxStages, NumWalletsMapper) /\ [][NextStages]_vars

-----------------------------------------------------------------------------
(* Scoring on batches whose records differ in value, timestamp and chain   *)

(* a transfer of 120 a month and a day later on another chain, or a        *)
(* transfer of nothing at a fixed time                                     *)
TxKinds == {"plain", "large", "zero"}

ApplyKind(tx, kind) ==
    IF kind = "large"
    THEN [tx EXCEPT !.value = 120, !.timestamp = @ + 60 * 60 * 24 * 31, !.chain = "bsc"]
    ELSE IF kind = "zero" THEN [tx EXCEPT !.value = 0, !.timestamp = 1000]
    ELSE tx

(* six transfers back and forth between two wallets, of which the batch    *)
(* holds the first three to six                                            *)
HeavyPairBatch == BatchOf(<<1, 2, 2, 1, 1, 2, 2, 1, 1, 2, 2, 1>>)

InitScore ==
    /\ \/ \E k \in 0..MaxTxScore : \E e \in EndpointSeqs(2 * k, NumWalletsMapper) :
              \E kinds \in [1..k -> TxKinds] :
                  transactions = [i \in 1..k |-> ApplyKind(BatchOf(e)[i], kinds[i])]
       \/ \E k \in 3..Len(HeavyPairBatch) : transactions = SubSeq(HeavyPairBatch, 1, k)
    /\ InitObjects

SpecScore == InitScore /\ [][NextMapper]_vars

-----------------------------------------------------------------------------
(* Batches with a record that lacks one key *)

DroppedKeys == {"from", "to", "amount", "value", "timestamp", "gas", "price", "chain"}

InitIngest ==
    /\ \E k \in 0..MaxTxIngest : \E e \in EndpointSeqs(2 * k, NumWalletsMapper) :
           \/ transactions = BatchOf(e)
           \/ \E i \in 1..k : \E key \in DroppedKeys :
                  transactions = [BatchOf(e) EXCEPT ![i] = Without(@, key)]
    /\ InitObjects

NextIngest ==
    \/ Construct
    \/ cluster_wallets
    \/ score_relationships
    \/ Call_detect_self_dealing
    \/ TakeResult

SpecIngest == InitIngest /\ [][NextIngest]_vars

-----------------------------------------------------------------------------
(* Behavioural similarity: every small batch, and the batch in which X and *)
(* Y each trade with A, B, C, D and Z trades with A, B                     *)
(* (X = 1, A..D = 2..5, Y = 6, Z = 7)                                      *)

SimilarityExample ==
    BatchOf(<<1, 2, 1, 3, 1, 4, 1, 5, 6, 2, 6, 3, 6, 4, 6, 5, 7, 2, 7, 3>>)

InitSimilarity ==
    /\ \/ \E k \in 0..MaxTxSimilarity : \E e \in EndpointSeqs(2 * k, NumWalletsSimilarity) :
              transactions = BatchOf(e)
       \/ transactions = SimilarityExample
    /\ InitConstructed

NextSimilarity ==
    \/ \E m \in MinSharedPartnersArgs : Call_behavioral_similarity_detection(m)
    \/ TakeResult

SpecSimilarity == InitSimilarity /\ [][NextSimilarity]_vars

-----------------------------------------------------------------------------
(* Temporal coordination: batches of transfers from a wallet to the next   *)
(* one, with timestamps drawn from Times in any order, and the batch with  *)
(* timestamps 0, 100, 250, 700                                             *)

Times == {0, 250, 700}

AtTime(tx, t) == [tx EXCEPT !.timestamp = t]

TemporalExample ==
    LET txs == BatchOf(<<1, 2, 2, 3, 3, 4, 4, 5>>)
        at == <<0, 100, 250, 700>>
    IN  [i \in DOMAIN txs |-> AtTime(txs[i], at[i])]

InitTemporal ==
    /\ \/ \E k \in 0..MaxTxTemporal :
              \E from \in [1..k -> 1..NumWalletsMapper] : \E at \in [1..k -> Times] :
                  transactions =
                      [i \in 1..k |->
                          AtTime(MkTx(i, from[i], (from[i] % NumWalletsMapper) + 1), at[i])]
       \/ transactions = TemporalExample
    /\ InitConstructed

NextTemporal ==
    \/ \E w \in TimeWindows : Call_temporal_coordination_patterns(w)
    \/ TakeResult

SpecTemporal == InitTemporal /\ [][NextTemporal]_vars

-----------------------------------------------------------------------------
(* Temporal sequence detection: batches of transfers between two wallets   *)
(* with timestamps drawn from BurstTimes in any order                      *)

BurstTimes == {0, 60, 120, 121, 300}

InitBursts ==
    /\ \E k \in 0..MaxTxBursts : \E at \in [1..k -> BurstTimes] :
           transactions = [i \in 1..k |-> AtTime(MkTx(i, 1, 2), at[i])]
    /\ InitConstructed

NextBursts ==
    \/ Call_temporal_sequence_detection
    \/ TakeResult

SpecBursts == InitBursts /\ [][NextBursts]_vars

-----------------------------------------------------------------------------
(* Statistics on small samples: batches over two wallets with prices drawn *)
(* from PriceValues, and a batch of six transfers of which one is priced   *)
(* ten times the others                                                    *)

PriceValues == {100, 200}

AtPrice(tx, price) == [tx EXCEPT !.price = price]

OutlierExample ==
    LET txs == BatchOf(<<1, 2, 1, 2, 1, 2, 1, 2, 1, 2, 1, 2>>)
    IN  [i \in DOMAIN txs |-> AtPrice(txs[i], IF i = 3 THEN 1000 ELSE 100)]

InitPrices ==
    /\ \/ \E k \in 0..MaxTxPrices : \E e \in EndpointSeqs(2 * k, 2) :
              \E prices \in [1..k -> PriceValues] :
                  transactions = [i \in 1..k |-> AtPrice(BatchOf(e)[i], prices[i])]
       \/ transactions = OutlierExample
    /\ InitConstructed

NextPrices ==
    \/ Call_statistical_anomaly_detection
    \/ Call_detect_suspicious_timing
    \/ TakeResult

SpecPrices == InitPrices /\ [][NextPrices]_vars

-----------------------------------------------------------------------------
(* Fee overlap: batches of transfers from a wallet to the next one with    *)
(* fees drawn from GasValues, and the thresholds 0.5 and 0.9               *)

GasValues == {21, 42}

GasThresholds == {Frac(1, 2), default_gas_threshold}

WithGas(tx, gas) == [tx EXCEPT !.gas = gas]

InitGas ==
    /\ \E k \in 0..MaxTxGas : \E from \in [1..k -> 1..NumWalletsMapper] :
           \E gas \in [1..k -> GasValues] :
               transactions =
                   [i \in 1..k |->
                       WithGas(MkTx(i, from[i], (from[i] % NumWalletsMapper) + 1), gas[i])]
    /\ InitConstructed

NextGas ==
    \/ \E gas_threshold \in GasThresholds :
           Call_gas_payment_relationship_analysis(gas_threshold)
    \/ TakeResult

SpecGas == InitGas /\ [][NextGas]_vars

-----------------------------------------------------------------------------
(* The parallel stages step by step, on batches of transfers from a wallet *)
(* to the next one                                                         *)

InitPool ==
    /\ \E k \in 0..MaxTxPool : \E from \in [1..k -> 1..NumWalletsMapper] :
           transactions =
               [i \in 1..k |-> MkTx(i, from[i], (from[i] % NumWalletsMapper) + 1)]
    /\ InitConstructed

NextPool ==
    \/ \E m \in MinSharedPartnersArgs : Start_behavioral_similarity_detection(m)
    \/ Start_gas_payment_relationship_analysis(default_gas_threshold)
    \/ \E i \in DOMAIN futures : RunUnit(i)
    \/ \E i \in DOMAIN futures : MergeResult(i)
    \/ ReturnStage
    \/ TakeResult

SpecPool == InitPool /\ [][NextPool]_vars

-----------------------------------------------------------------------------
(* ContractService (trust_score/api/services/contractService.py).  Token   *)
(* uids are opaque: the integers 1..NumTokens.  deploy_contract and the    *)
(* TrustScoreSwap constructor are external calls: each either returns or   *)
(* raises, and an exception is caught by the service (lines 51-56).        *)

Tokens == 1..NumTokens

Multipliers == (-1)..MaxMultiplier

Amounts == 0..MaxAmount

(* the id deploy_contract returns: opaque *)
DeployedId == "deployed"

(* lines 39-44: a TrustScoreSwap object with its five attributes assigned *)
TrustScoreSwap(token_a, token_b, multiplier_a, multiplier_b) ==
    [token_a |-> token_a, token_b |-> token_b, multiplier_a |-> multiplier_a,
     multiplier_b |-> multiplier_b, swaps_counter |-> 0]

initialize_contract(token_a, token_b, multiplier_a, multiplier_b) ==
    /\ lastCall.op = "none"
    /\ \/ (* line 34 raises: nothing was assigned *)
          /\ UNCHANGED serviceVars
          /\ lastCall' = [op |-> "initialize_contract",
                          args |-> <<token_a, token_b, multiplier_a, multiplier_b>>,
                          result |-> [success |-> FALSE,
                                      message |-> "Failed to initialize contract"]]
       \/ (* line 39 raises: the new contract id is already stored *)
          /\ contract_id' = DeployedId
          /\ UNCHANGED <<contract, successful_swaps>>
          /\ lastCall' = [op |-> "initialize_contract",
                          args |-> <<token_a, token_b, multiplier_a, multiplier_b>>,
                          result |-> [success |-> FALSE,
                                      message |-> "Failed to initialize contract"]]
       \/ (* lines 34-50 *)
          /\ contract_id' = DeployedId
          /\ contract' = TrustScoreSwap(token_a, token_b, multiplier_a, multiplier_b)
          /\ successful_swaps' = 0
          /\ lastCall' = [op |-> "initialize_contract",
                          args |-> <<token_a, token_b, multiplier_a, multiplier_b>>,
                          result |-> [success |-> TRUE, contract_id |-> DeployedId,
                                      message |-> "Contract initialized successfully"]]
    /\ UNCHANGED fraudVars

(* Variant: each amount is multiplied by the multiplier of its own token *)
RatioHolds_own_multiplier(deposit_amount, withdrawal_multiplier, withdrawal_amount, deposit_multiplier) ==
    deposit_amount * deposit_multiplier = withdrawal_amount * withdrawal_multiplier

(* line 96 *)
RatioHolds(deposit_amount, withdrawal_multiplier, withdrawal_amount, deposit_multiplier) ==
    deposit_amount * withdrawal_multiplier = withdrawal_amount * deposit_multiplier

perform_swap(deposit_token, deposit_amount, withdrawal_token, withdrawal_amount) ==
    LET args == <<deposit_token, deposit_amount, withdrawal_token, withdrawal_amount>>
        deposit_is_a == deposit_token = contract.token_a
        deposit_multiplier ==
            IF deposit_is_a THEN contract.multiplier_a ELSE contract.multiplier_b
        withdrawal_multiplier ==
            IF deposit_is_a THEN contract.multiplier_b ELSE contract.multiplier_a
        failure(error, message) ==
            /\ lastCall' = [op |-> "perform_swap", args |-> args,
                            result |-> [success |-> FALSE, error |-> error,
                                        message |-> message]]
            /\ UNCHANGED serviceVars
    IN  /\ lastCall.op = "none"
        /\ IF contract = None
           THEN failure("Contract not initialized", "Please initialize the contract first")
           ELSE IF {deposit_token, withdrawal_token} # {contract.token_a, contract.token_b}
           THEN failure("Invalid tokens",
                        "The tokens do not match those initialized in the contract")
           ELSE IF ~RatioHolds(deposit_amount, withdrawal_multiplier,
                               withdrawal_amount, deposit_multiplier)
           THEN failure("Invalid ratio",
                        "The swap ratio does not match the contract parameters")
           ELSE /\ contract.swaps_counter < MaxSwaps
                /\ contract' = [contract EXCEPT !.swaps_counter = @ + 1]
                /\ successful_swaps' = successful_swaps + 1
                /\ UNCHANGED contract_id
                /\ lastCall' = [op |-> "perform_swap", args |-> args,
                                result |-> [success |-> TRUE,
                                            contract_id |-> contract_id,
                                            swap_id |-> contract.swaps_counter + 1,
                                            message |-> "Swap executed successfully"]]
        /\ UNCHANGED fraudVars

fetch_contract_state ==
    /\ lastCall.op = "none"
    /\ lastCall' = [op |-> "fetch_contract_state", args |-> <<>>,
                    result |-> IF contract = None
                               THEN [success |-> FALSE, error |-> "Contract not initialized",
                                     message |-> "Please initialize the contract first"]
                               ELSE [success |-> TRUE, contract_id |-> contract_id,
                                     token_a |-> contract.token_a,
                                     multiplier_a |-> contract.multiplier_a,
                                     token_b |-> contract.token_b,
                                     multiplier_b |-> contract.multiplier_b,
                                     swaps_counter |-> contract.swaps_counter]]
    /\ UNCHANGED <<serviceVars, fraudVars>>

(* the caller of a service method takes the returned dict *)
TakeServiceResult ==
    /\ lastCall.op # "none"
    /\ lastCall' = NoCall
    /\ UNCHANGED <<serviceVars, fraudVars>>

NextService ==
    \/ \E token_a \in Tokens, token_b \in Tokens :
           \E multiplier_a \in Multipliers, multiplier_b \in Multipliers :
               initialize_contract(token_a, token_b, multiplier_a, multiplier_b)
    \/ \E deposit_token \in Tokens, withdrawal_token \in Tokens :
           \E deposit_amount \in Amounts, withdrawal_amount \in Amounts :
               perform_swap(deposit_token, deposit_amount, withdrawal_token, withdrawal_amount)
    \/ fetch_contract_state
    \/ TakeServiceResult

(* the service alone: the analytics objects are built from the empty batch *)
SpecService == InitWith(0, 1) /\ [][NextService]_vars

-----------------------------------------------------------------------------
(* The whole system *)

Next ==
    \/ NextBuild \/ NextMapper \/ NextHelper \/ NextAnalyzer \/ NextDetectors
    \/ NextStages \/ NextIngest
    \/ NextService
    \/ NextPool
    \/ NextBursts
    \/ NextPrices
    \/ NextGas

Spec == Init /\ [][Next]_vars

-----------------------------------------------------------------------------
(* Properties *)

(* the number of transactions of the batch from u to v *)
TxCount(txs, u, v) == Cardinality({k \in DOMAIN txs : txs[k].from = u /\ txs[k].to = v})

Min2(a, b) == IF a <= b THEN a ELSE b

SameCluster(clusters, a, b) ==
    \E k \in DOMAIN clusters : a \in Range(clusters[k]) /\ b \in Range(clusters[k])

IsPartitionOf(clusters, W) ==
    /\ \A w \in W : Cardinality({k \in DOMAIN clusters : w \in Range(clusters[k])}) = 1
    /\ \A k \in DOMAIN clusters :
          /\ Range(clusters[k]) \subseteq W
          /\ Cardinality(Range(clusters[k])) = Len(clusters[k])
    /\ \A k1 \in DOMAIN clusters : \A k2 \in DOMAIN clusters :
          k1 # k2 => Range(clusters[k1]) \cap Range(clusters[k2]) = {}

(* C1: every cluster_wallets call leaves clusters that partition the       *)
(* wallets of the batch: each wallet that is 'from' or 'to' of some        *)
(* transaction is in exactly one cluster, no two clusters share a wallet,  *)
(* and no cluster holds a wallet that is absent from the batch.            *)
C1_ClustersPartitionWallets ==
    lastCall.op = "cluster_wallets" =>
        /\ IsPartitionOf(lastCall.result, BatchWallets(transactions))
        /\ wallet_clusters = lastCall.result

C1_Witness ==
    /\ lastCall.op = "cluster_wallets"
    /\ Len(wallet_clusters) >= 2
    /\ \E k \in DOMAIN wallet_clusters : Len(wallet_clusters[k]) >= 2

(* whether the batch links a and b by transfers, ignoring direction *)
Linked(a, b) == TxCount(transactions, a, b) + TxCount(transactions, b, a) > 0

(* the wallets reached from S over at most n transfers, ignoring direction *)
RECURSIVE LinkedClosure(_, _)
LinkedClosure(S, n) ==
    IF n = 0 THEN S
    ELSE LinkedClosure(S \cup {c \in Wallets : \E a \in S : Linked(a, c)}, n - 1)

ConnectedInBatch(a, b) == b \in LinkedClosure({a}, NumWallets - 1)

(* C2: in every state reached by cluster_wallets and score_relationships   *)
(* calls, the score map has no entry, in either key order, for two wallets *)
(* of different clusters (wallets the batch does not connect).             *)
C2_NoCrossClusterScore ==
    \A key \in DOMAIN relationship_scores :
        /\ SameCluster(wallet_clusters, key[1], key[2])
        /\ ConnectedInBatch(key[1], key[2])

C2_Witness ==
    /\ Len(wallet_clusters) >= 2
    /\ relationship_scores # <<>>

Factors == {"confidence", "strength", "historical_evolution", "multi_hop", "cross_chain"}

ExactlyClusterPairs(scores, clusters) ==
    /\ \A a \in Wallets : \A b \in Wallets :
          (a # b /\ SameCluster(clusters, a, b)) =>
              Cardinality({<<a, b>>, <<b, a>>} \cap DOMAIN scores) = 1
    /\ \A key \in DOMAIN scores :
          /\ key[1] # key[2]
          /\ SameCluster(clusters, key[1], key[2])
          /\ DOMAIN scores[key] = Factors

(* C3: a score_relationships call after cluster_wallets leaves exactly one *)
(* entry per unordered pair of distinct wallets sharing a cluster (never   *)
(* both key orders, never a wallet with itself), each with the five        *)
(* factors.                                                                *)
C3_OneEntryPerClusterPair ==
    lastCall.op = "score_relationships" =>
        /\ ExactlyClusterPairs(lastCall.result, wallet_clusters)
        /\ relationship_scores = lastCall.result

C3_Witness ==
    /\ lastCall.op = "score_relationships"
    /\ \E k \in DOMAIN wallet_clusters : Len(wallet_clusters[k]) >= 3
    /\ Cardinality(DOMAIN relationship_scores) >= 3

(* C4: however the threads' calls of _build_transaction_graph interleave,  *)
(* the graph is constructed at most once, by one caller, and every caller  *)
(* gets the same cached graph object.                                      *)
C4_GraphBuiltOnce ==
    /\ graphs_built <= 1
    /\ \A t \in Threads : pc[t] = "done" => (graphs_built = 1 /\ ret[t] = _graph_cache)
    /\ \A t1 \in Threads : \A t2 \in Threads :
          (ret[t1] # None /\ ret[t2] # None) => ret[t1].id = ret[t2].id

C4_Witness ==
    \E t1 \in Threads \ {Ctor} : \E t2 \in Threads \ {Ctor} :
        t1 # t2 /\ pc[t1] = "done" /\ pc[t2] = "done"

(* C5: once the graph is built, a further build call, with the same batch  *)
(* or another one, does not rebuild: it returns the graph the mapper       *)
(* holds, whose node and edge counts are those of the mapper's batch.      *)
C5_BuildIdempotent ==
    \A t \in Threads \ {Ctor} :
        pc[t] = "done" =>
            /\ ret[t] = graph
            /\ _graph_cache = graph
            /\ Len(ret[t].nodes) = Cardinality(BatchWallets(transactions))
            /\ Len(ret[t].edges) = Len(transactions)

C5_Witness ==
    \E t \in Threads \ {Ctor} : pc[t] = "done" /\ arg[t] = OtherBatch

Endpoints(txs) == [k \in DOMAIN txs |-> <<txs[k].from, txs[k].to>>]

(* C6: detect_ping_pong_trading flags a pair (u, v) only if the batch has  *)
(* at least min_count transactions from u to v and at least min_count from *)
(* v to u; the batch A->B, A->B, B->A does not flag (A, B) at the default  *)
(* min_count.                                                              *)
C6_PingPongOnlyReciprocal ==
    lastCall.op = "detect_ping_pong_trading" =>
        LET min_count == lastCall.args[1]
            flagged == Range(lastCall.result)
        IN  /\ \A e \in flagged :
                  /\ TxCount(transactions, e[1], e[2]) >= min_count
                  /\ TxCount(transactions, e[2], e[1]) >= min_count
            /\ (Endpoints(transactions) = <<<<1, 2>>, <<1, 2>>, <<2, 1>>>>
                  /\ min_count = default_min_count)
                  => flagged \cap {<<1, 2>>, <<2, 1>>} = {}

C6_Witness ==
    /\ lastCall.op = "detect_ping_pong_trading"
    /\ \E i \in DOMAIN lastCall.result : lastCall.result[i][1] # lastCall.result[i][2]

(* C7: detect_ping_pong_trading flags every pair of distinct wallets with  *)
(* at least min_count transactions in each direction, parallel             *)
(* transactions counted separately.                                        *)
C7_PingPongFlagsAllReciprocal ==
    lastCall.op = "detect_ping_pong_trading" =>
        LET min_count == lastCall.args[1]
            flagged == Range(lastCall.result)
        IN  \A u \in Wallets : \A v \in Wallets :
                (/\ u # v
                 /\ TxCount(transactions, u, v) >= min_count
                 /\ TxCount(transactions, v, u) >= min_count)
                => (<<u, v>> \in flagged \/ <<v, u>> \in flagged)

(* simple directed paths of the batch with n wallets, starting at a *)
RECURSIVE SimplePaths(_, _)
SimplePaths(a, n) ==
    IF n = 1 THEN {<<a>>}
    ELSE UNION {{Append(p, w) : w \in {x \in Wallets \ Range(p) :
                                          TxCount(transactions, p[Len(p)], x) > 0}}
                : p \in SimplePaths(a, n - 1)}

(* directed simple cycles of the batch with n wallets, in every rotation *)
BatchCycles(n) ==
    UNION {{p \in SimplePaths(a, n) : TxCount(transactions, p[n], a) > 0} : a \in Wallets}

IsRotation(c, q) ==
    /\ Len(c) = Len(q)
    /\ \E r \in 0..(Len(c) - 1) : \A j \in 1..Len(c) : c[j] = q[((j - 1 + r) % Len(c)) + 1]

(* C8: detect_circular_trading(max_cycle_length) returns exactly the       *)
(* directed simple cycles of the batch of length L, 2 < L <=               *)
(* max_cycle_length, each once up to rotation; no self-loop or 2-cycle is  *)
(* returned; A->B, B->C, C->A with max_cycle_length 4 gives one cycle, on  *)
(* {A, B, C}.                                                              *)
C8_CircularTradingExact ==
    lastCall.op = "detect_circular_trading" =>
        LET m == lastCall.args[1]
            cycles == lastCall.result
        IN  /\ \A i \in DOMAIN cycles :
                  /\ 2 < Len(cycles[i]) /\ Len(cycles[i]) <= m
                  /\ cycles[i] \in BatchCycles(Len(cycles[i]))
            /\ \A n \in 3..Min2(m, NumWallets) : \A q \in BatchCycles(n) :
                  Cardinality({i \in DOMAIN cycles : IsRotation(cycles[i], q)}) = 1
            /\ (Endpoints(transactions) = <<<<1, 2>>, <<2, 3>>, <<3, 1>>>>
                  /\ m = default_max_cycle_length)
                  => (Len(cycles) = 1 /\ Range(cycles[1]) = {1, 2, 3})

C8_Witness ==
    /\ lastCall.op = "detect_circular_trading"
    /\ lastCall.result # <<>>
    /\ \E u \in Wallets : \E v \in Wallets :
          u # v /\ TxCount(transactions, u, v) > 0 /\ TxCount(transactions, v, u) > 0

(* C9: every scored pair whose wallets have at least one transaction       *)
(* between them has multi_hop 0.                                           *)
C9_DirectPairMultiHopZero ==
    \A key \in DOMAIN relationship_scores :
        Linked(key[1], key[2]) => relationship_scores[key].multi_hop = FZero

(* whether the batch has a directed walk of n transfers from a to b *)
RECURSIVE WalkExists(_, _, _)
WalkExists(a, b, n) ==
    IF n = 0 THEN a = b
    ELSE \E c \in Wallets : TxCount(transactions, a, c) > 0 /\ WalkExists(c, b, n - 1)

HasPath(a, b) == \E n \in 0..(NumWallets - 1) : WalkExists(a, b, n)

Distance(a, b) ==
    CHOOSE n \in 0..(NumWallets - 1) :
        WalkExists(a, b, n) /\ \A k \in 0..(n - 1) : ~WalkExists(a, b, k)

(* C10: _multi_hop_score never raises; for two wallets with no transaction *)
(* between them it is 1 - (d - 1) / max_hops when the shortest path from   *)
(* the first to the second has 2 <= d <= max_hops transfers (2/3 for d = 2 *)
(* and max_hops = 3), and 0 when d > max_hops, when there is no path, or   *)
(* when a wallet is not a node of the graph.                               *)
C10_MultiHopByDistance ==
    lastCall.op = "_multi_hop_score" =>
        LET w1 == lastCall.args[1]
            w2 == lastCall.args[2]
            max_hops == lastCall.args[3]
            value == lastCall.result.value
        IN  /\ lastCall.result.raised = "none"
            /\ (w1 # w2 /\ ~Linked(w1, w2)) =>
                  IF {w1, w2} \subseteq BatchWallets(transactions) /\ HasPath(w1, w2)
                  THEN LET d == Distance(w1, w2)
                       IN  /\ d >= 2
                           /\ d <= max_hops =>
                                 value.num * max_hops = (max_hops - (d - 1)) * value.den
                           /\ d > max_hops => value = FZero
                           /\ (d = 2 /\ max_hops = 3) => value = [num |-> 2, den |-> 3]
                  ELSE value = FZero

C10_Witness ==
    /\ lastCall.op = "_multi_hop_score"
    /\ lastCall.args[1] # lastCall.args[2]
    /\ ~Linked(lastCall.args[1], lastCall.args[2])
    /\ HasPath(lastCall.args[1], lastCall.args[2])
    /\ lastCall.args[3] = default_max_hops
    /\ lastCall.result.value = [num |-> 2, den |-> 3]

InUnitInterval(x) == x.den > 0 /\ 0 <= x.num /\ x.num <= x.den

ByTime ==
    LET before(j, k) ==
            \/ transactions[j].timestamp < transactions[k].timestamp
            \/ (transactions[j].timestamp = transactions[k].timestamp /\ j < k)
        rank(k) == Cardinality({j \in DOMAIN transactions : before(j, k)}) + 1
    IN  [r \in DOMAIN transactions |->
            transactions[CHOOSE k \in DOMAIN transactions : rank(k) = r]]

(* the positions in ByTime at which a group starts: the first, and each    *)
(* first position later than the window after the previous start           *)
Anchors(window) ==
    LET n == Len(transactions)
        ts(i) == ByTime[i].timestamp
        next(A, a) == IF \E b \in A : b > a
                      THEN CHOOSE b \in A : b > a /\ \A c \in A : c > a => b <= c
                      ELSE n + 1
    IN  CHOOSE A \in SUBSET (1..n) :
            /\ n > 0 => 1 \in A
            /\ \A a \in A :
                  /\ ts(next(A, a) - 1) - ts(a) <= window
                  /\ next(A, a) <= n => ts(next(A, a)) - ts(a) > window

(* C12: temporal_coordination_patterns forms its groups over the batch in  *)
(* timestamp order; each group starts at an anchor t0 and holds exactly    *)
(* the following transactions with timestamp - t0 <= time_window_seconds   *)
(* (the anchor is never re-based, so no group spans more than the window), *)
(* and the groups of more than two wallets are returned; with timestamps   *)
(* 0, 100, 250, 700 and window 600 the group at 0 absorbs 100 and 250, not *)
(* 700, and a new group starts at 700.                                     *)
C12_GroupsAnchoredAtFirst ==
    lastCall.op = "temporal_coordination_patterns" =>
        LET window == lastCall.args[1]
            n == Len(transactions)
            A == Anchors(window)
            start(g) == CHOOSE a \in A : Cardinality({b \in A : b < a}) = g - 1
            end(g) == IF g < Cardinality(A) THEN start(g + 1) - 1 ELSE n
            wallets(g) == {ByTime[k].from : k \in start(g)..end(g)}
                          \cup {ByTime[k].to : k \in start(g)..end(g)}
            groups == [g \in 1..Cardinality(A) |-> wallets(g)]
        IN  /\ lastCall.groups = groups
            /\ lastCall.result = SelectSeq(groups, LAMBDA group : Cardinality(group) > 2)
            /\ \A g \in 1..Cardinality(A) :
                  ByTime[end(g)].timestamp - ByTime[start(g)].timestamp <= window
            /\ (transactions = TemporalExample /\ window = default_time_window_seconds) =>
                  /\ lastCall.groups = <<{1, 2, 3, 4}, {4, 5}>>
                  /\ lastCall.result = <<{1, 2, 3, 4}>>

C12_Witness ==
    /\ lastCall.op = "temporal_coordination_patterns"
    /\ lastCall.args[1] = default_time_window_seconds
    /\ Len(lastCall.groups) = 2
    /\ Len(lastCall.result) = 1
    /\ \E i \in DOMAIN transactions : \E j \in DOMAIN transactions :
          /\ i < j
          /\ transactions[i].timestamp = 700
          /\ transactions[j].timestamp = 250
          /\ \E k \in DOMAIN transactions : transactions[k].timestamp = 0

(* the wallets a wallet trades with, in either direction *)
Counterparties(w) ==
    {v \in BatchWallets(transactions) :
        TxCount(transactions, w, v) > 0 \/ TxCount(transactions, v, w) > 0}

(* C13: behavioral_similarity_detection(min_shared_partners) returns an    *)
(* unordered pair of distinct wallets exactly when their counterparty sets *)
(* share at least min_shared_partners wallets, and no unordered pair       *)
(* twice; with X and Y trading with A, B, C, D and Z with A, B, threshold  *)
(* 3 flags (X, Y) and neither (X, Z) nor (Y, Z).                           *)
C13_SimilarPairsBySharedPartners ==
    lastCall.op = "behavioral_similarity_detection" =>
        LET m == lastCall.args[1]
            pairs == lastCall.result
            flagged(a, b) == \E i \in DOMAIN pairs : pairs[i] \in {<<a, b>>, <<b, a>>}
        IN  /\ \A a \in BatchWallets(transactions) : \A b \in BatchWallets(transactions) :
                  a # b => (flagged(a, b) <=>
                               Cardinality(Counterparties(a) \cap Counterparties(b)) >= m)
            /\ \A i \in DOMAIN pairs : pairs[i][1] # pairs[i][2]
            /\ \A i \in DOMAIN pairs : \A j \in DOMAIN pairs :
                  i # j => {pairs[i][1], pairs[i][2]} # {pairs[j][1], pairs[j][2]}
            /\ (transactions = SimilarityExample /\ m = default_min_shared_partners) =>
                  (flagged(1, 6) /\ ~flagged(1, 7) /\ ~flagged(6, 7))

C13_Witness ==
    /\ lastCall.op = "behavioral_similarity_detection"
    /\ transactions = SimilarityExample
    /\ lastCall.args[1] = default_min_shared_partners
    /\ Len(lastCall.result) = 2

(* C15: when records lack only the optional 'chain' key, score_relationships *)
(* completes, and the cross_chain factor of a pair whose wallets have no   *)
(* recorded chain in common is 0.                                          *)
C15_MissingChainDegrades ==
    (/\ lastCall.op = "score_relationships"
     /\ \A k \in DOMAIN transactions : (DOMAIN MkTx(0, 0, 0)) \ {"chain"} \subseteq DOMAIN transactions[k])
    => /\ lastCall.raised = "none"
       /\ \A key \in DOMAIN lastCall.result :
             LET chains(w) == {transactions[k].chain :
                                  k \in {j \in DOMAIN transactions :
                                            /\ "chain" \in DOMAIN transactions[j]
                                            /\ w \in {transactions[j].from, transactions[j].to}}}
             IN  chains(key[1]) \cap chains(key[2]) = {} =>
                     lastCall.result[key].cross_chain = FZero

(* the keys each class needs of a record *)
AnalyzerRequiredKeys == {"from", "to", "amount", "timestamp", "price"}

MapperRequiredKeys == {"from", "to", "value", "timestamp", "gas"}

(* C16: a record that lacks a required key makes the ingestion of the      *)
(* batch fail: no analyzer or mapper object is constructed from it, and no *)
(* cluster, score or detector result is produced from the batch.           *)
C16_MalformedBatchFailsAtIngestion ==
    /\ FirstLacking(transactions, AnalyzerRequiredKeys) > 0 =>
          /\ analyzer_graph = None
          /\ lastCall.op # "detect_self_dealing"
    /\ FirstLacking(transactions, MapperRequiredKeys) > 0 =>
          /\ graph = None
          /\ wallet_clusters = <<>>
          /\ relationship_scores = <<>>
          /\ lastCall.op \notin {"cluster_wallets", "score_relationships"}

(* C14: an empty batch is not an error: both objects are constructed, the  *)
(* graphs have no node and no edge, the three indices are empty, and every *)
(* detector and every mapper stage returns an empty result (no clusters,   *)
(* an empty score map, zero counts and no component for the graph          *)
(* statistics).                                                            *)
C14_EmptyBatchIsNoError ==
    transactions = <<>> =>
        /\ analyzer_graph # None
        /\ analyzer_graph.nodes = <<>> /\ DiEdges(analyzer_graph) = <<>>
        /\ pc[Ctor] # "raised"
        /\ DOMAIN _tx_lookup = {} /\ DOMAIN _partners_cache = {} /\ DOMAIN _gas_map_cache = {}
        /\ graph # None => (graph.nodes = <<>> /\ graph.edges = <<>>)
        /\ wallet_clusters = <<>> /\ DOMAIN relationship_scores = {}
        /\ lastCall.op = "graph_based_relationship_analysis" =>
              /\ lastCall.result.num_nodes = 0
              /\ lastCall.result.num_edges = 0
              /\ lastCall.result.strongly_connected_components = {}
        /\ lastCall.op \notin {"none", "graph_based_relationship_analysis"} =>
              Len(lastCall.result) = 0

C14_Witness ==
    /\ transactions = <<>>
    /\ graph # None
    /\ lastCall.op = "cluster_wallets"
    /\ lastCall.result = <<>>

(* the number of edges of the mapper's graph from u to v *)
EdgeCount(G, u, v) == Cardinality({i \in DOMAIN G.edges : G.edges[i].u = u /\ G.edges[i].v = v})

(* C17: the transaction graph has one node per distinct wallet of the      *)
(* batch and one edge per transaction (k transactions from u to v give k   *)
(* parallel edges, the edge count is the batch length), in the mapper's    *)
(* graph and in the graph the detectors read.                              *)
C17_OneEdgePerTransaction ==
    /\ graph # None =>
          /\ Range(graph.nodes) = BatchWallets(transactions)
          /\ Len(graph.nodes) = Cardinality(BatchWallets(transactions))
          /\ Len(graph.edges) = Len(transactions)
          /\ \A u \in Wallets : \A v \in Wallets :
                EdgeCount(graph, u, v) = TxCount(transactions, u, v)
    /\ analyzer_graph # None =>
          /\ Range(analyzer_graph.nodes) = BatchWallets(transactions)
          /\ Len(DiEdges(analyzer_graph)) = Len(transactions)
    /\ lastCall.op = "graph_based_relationship_analysis" =>
          /\ lastCall.result.num_nodes = Cardinality(BatchWallets(transactions))
          /\ lastCall.result.num_edges = Len(transactions)

(* C18: rule_based_heuristic_evaluation returns, in batch order, exactly   *)
(* the transactions whose 'from' or 'to' is a wallet of a cycle of the     *)
(* batch of length 3 to the default max_cycle_length, a wallet that sends  *)
(* to itself, or a wallet of a pair detect_ping_pong_trading returns at    *)
(* the default min_count.                                                  *)
C18_RuleBasedFlagsTouchingTransactions ==
    lastCall.op = "rule_based_heuristic_evaluation" =>
        LET cycles == UNION {BatchCycles(n) :
                                n \in 3..Min2(default_max_cycle_length, NumWallets)}
            ping_pong == detect_ping_pong_trading(analyzer_graph, default_min_count)
            flagged == UNION {Range(c) : c \in cycles}
                       \cup {w \in Wallets : TxCount(transactions, w, w) > 0}
                       \cup UNION {{ping_pong[i][1], ping_pong[i][2]} : i \in DOMAIN ping_pong}
        IN  lastCall.result =
                SelectSeq(transactions, LAMBDA tx : tx.from \in flagged \/ tx.to \in flagged)

C18_Witness ==
    /\ lastCall.op = "rule_based_heuristic_evaluation"
    /\ lastCall.result # <<>>
    /\ Len(lastCall.result) < Len(transactions)
    /\ \E i \in DOMAIN lastCall.result :
          TxCount(transactions, lastCall.result[i].from, lastCall.result[i].from) = 0

(* C19: initialize_contract with token_a = token_b, or with a multiplier   *)
(* that is zero or negative, returns success = False and leaves the        *)
(* service without a contract.                                             *)
C19_InvalidInitializeFails ==
    lastCall.op = "initialize_contract" =>
        LET token_a == lastCall.args[1]
            token_b == lastCall.args[2]
            multiplier_a == lastCall.args[3]
            multiplier_b == lastCall.args[4]
        IN  (token_a = token_b \/ multiplier_a <= 0 \/ multiplier_b <= 0) =>
                /\ ~lastCall.result.success
                /\ contract = None

(* what a perform_swap call on an initialized contract does, by its        *)
(* arguments and the contract before the call                              *)
C20_SwapStep ==
    (lastCall.op = "none" /\ lastCall'.op = "perform_swap" /\ contract # None) =>
        LET deposit_token == lastCall'.args[1]
            deposit_amount == lastCall'.args[2]
            withdrawal_token == lastCall'.args[3]
            withdrawal_amount == lastCall'.args[4]
            mult(token) == IF token = contract.token_a THEN contract.multiplier_a
                           ELSE contract.multiplier_b
            other(token) == IF token = contract.token_a THEN contract.multiplier_b
                            ELSE contract.multiplier_a
            pair == {deposit_token, withdrawal_token} = {contract.token_a, contract.token_b}
            ratio == deposit_amount * other(deposit_token)
                         = withdrawal_amount * mult(deposit_token)
            result == lastCall'.result
        IN  /\ result.success <=> (pair /\ ratio)
            /\ result.success =>
                  /\ contract' = [contract EXCEPT !.swaps_counter = contract.swaps_counter + 1]
                  /\ result.swap_id = contract'.swaps_counter
            /\ ~result.success =>
                  /\ contract' = contract
                  /\ result.error = (IF pair THEN "Invalid ratio" ELSE "Invalid tokens")

(* C20: on an initialized contract swaps_counter is the number of swaps    *)
(* that succeeded since initialization; a swap succeeds, adds exactly one  *)
(* to the counter and returns the new counter as swap_id if and only if    *)
(* its tokens are the contract's pair and deposit_amount *                 *)
(* withdrawal_multiplier = withdrawal_amount * deposit_multiplier; a       *)
(* rejected swap changes nothing of the contract.                          *)
C20_SwapsCounterCountsSuccesses ==
    /\ [](contract # None => contract.swaps_counter = successful_swaps)
    /\ [][C20_SwapStep]_vars

C20_Witness ==
    /\ lastCall.op = "perform_swap"
    /\ lastCall.result.success
    /\ lastCall.result.swap_id = 2
    /\ contract.token_a # contract.token_b
    /\ contract.multiplier_a # contract.multiplier_b
    /\ lastCall.args[2] > 0

(* the number of times x occurs in the list s *)
Occurrences(s, x) == Cardinality({i \in DOMAIN s : s[i] = x})

(* the results of the units of a parallel stage, concatenated in the order *)
(* of the wallet indices                                                   *)
MergedInIndexOrder(op, args) ==
    IF op = "behavioral_similarity_detection"
    THEN LET wallets == PartnerKeys(transactions)
         IN  FlattenSeq([i \in DOMAIN wallets |->
                 find_similar(PartnersCache(transactions), wallets, i, args[1])])
    ELSE LET wallets == GasKeys(transactions)
         IN  FlattenSeq([i \in DOMAIN wallets |->
                 find_gas_pairs(GasMapCache(transactions), wallets, i,
                                args[1].num, args[1].den)])

ParallelStages == {"behavioral_similarity_detection", "gas_payment_relationship_analysis"}

(* C21: whatever the order in which the units of                           *)
(* behavioral_similarity_detection or gas_payment_relationship_analysis    *)
(* complete and are merged, the returned list holds the same pairs, each   *)
(* as often, as the units' results concatenated in index order: only the   *)
(* order of the list depends on the completion order.                      *)
C21_MergeOrderIrrelevant ==
    lastCall.op \in ParallelStages =>
        LET in_order == MergedInIndexOrder(lastCall.op, lastCall.args)
        IN  /\ Len(lastCall.result) = Len(in_order)
            /\ \A pair \in Range(in_order) \cup Range(lastCall.result) :
                  Occurrences(lastCall.result, pair) = Occurrences(in_order, pair)

C21_Witness ==
    /\ lastCall.op \in ParallelStages
    /\ Len(lastCall.result) >= 2
    /\ lastCall.result # MergedInIndexOrder(lastCall.op, lastCall.args)

(* what a step of a parallel stage may change *)
C22_PoolStep ==
    /\ (\E i \in DOMAIN futures :
            /\ i \in DOMAIN futures'
            /\ futures[i].state = "pending"
            /\ futures'[i].state = "finished") =>
          /\ \E i \in DOMAIN futures :
                futures' = [futures EXCEPT ![i].state = "finished",
                                           ![i].local_pairs = futures'[i].local_pairs]
          /\ UNCHANGED <<similar_pairs, stage, lastCall, transactions, analyzer_graph,
                         mapperVars>>
    /\ similar_pairs' # similar_pairs =>
          /\ stage.op # "none"
          /\ \/ stage'.op = "none"
             \/ \E i \in DOMAIN futures :
                   /\ futures[i].state = "finished"
                   /\ ~futures[i].yielded
                   /\ futures' = [futures EXCEPT ![i].yielded = TRUE]
                   /\ similar_pairs' = similar_pairs \o futures[i].local_pairs
    /\ (stage.op # "none" /\ stage'.op = "none") =>
          /\ Len(futures) =
                 Cardinality(DOMAIN (IF stage.op = "behavioral_similarity_detection"
                                     THEN _partners_cache ELSE _gas_map_cache))
          /\ \A i \in DOMAIN futures : futures[i].state = "finished" /\ futures[i].yielded
          /\ lastCall' = [op |-> stage.op, args |-> stage.args, result |-> similar_pairs]

(* C22: in the parallel stages a step in which a worker completes a unit   *)
(* changes only that unit's future (its local result list): the result     *)
(* list of the stage, the batch, the graph and the indices are unchanged;  *)
(* the result list is extended only by the calling thread, with the whole  *)
(* result of a finished future it has not merged yet; and the stage        *)
(* returns only when every submitted unit, one per wallet index, has       *)
(* finished and been merged.                                               *)
C22_NoSharedWritesAndJoin == [][C22_PoolStep]_vars

C22_Witness ==
    /\ stage.op # "none"
    /\ similar_pairs # <<>>
    /\ \E i \in DOMAIN futures : futures[i].state = "pending"
    /\ \E i \in DOMAIN futures : futures[i].state = "finished" /\ ~futures[i].yielded

(* C23: the candidate groups of temporal_coordination_patterns are         *)
(* non-empty, every transaction of the batch lies in exactly one of them,  *)
(* no transaction of a later group is earlier than a transaction of an     *)
(* earlier group, and the returned list is, in order, the wallet sets of   *)
(* exactly the candidate groups that involve more than 2 distinct wallets. *)
C23_GroupsPartitionBatch ==
    lastCall.op = "temporal_coordination_patterns" =>
        LET members == lastCall.members
            places(tx) == {gp \in (DOMAIN members) \X (DOMAIN transactions) :
                              /\ gp[2] \in DOMAIN members[gp[1]]
                              /\ members[gp[1]][gp[2]] = tx}
            wallets(g) == {members[g][k].from : k \in DOMAIN members[g]}
                          \cup {members[g][k].to : k \in DOMAIN members[g]}
            emitted == {g \in DOMAIN members : Cardinality(wallets(g)) > 2}
            nth(r) == CHOOSE g \in emitted : Cardinality({h \in emitted : h < g}) = r - 1
        IN  /\ \A g \in DOMAIN members : members[g] # <<>>
            /\ \A k \in DOMAIN transactions : Cardinality(places(transactions[k])) = 1
            /\ SumSeq([g \in DOMAIN members |-> Len(members[g])]) = Len(transactions)
            /\ \A g \in DOMAIN members : \A h \in DOMAIN members :
                  g < h => \A x \in Range(members[g]) : \A y \in Range(members[h]) :
                               x.timestamp <= y.timestamp
            /\ lastCall.result = [r \in 1..Cardinality(emitted) |-> wallets(nth(r))]

C23_Witness ==
    /\ lastCall.op = "temporal_coordination_patterns"
    /\ Len(lastCall.members) = 2
    /\ Len(lastCall.members[2]) = 2
    /\ lastCall.result = <<lastCall.groups[2]>>
    /\ transactions[1].timestamp > transactions[2].timestamp

(* the batch the objects were constructed from: the argument of the        *)
(* constructor's call of _build_transaction_graph                          *)
ConstructedFrom == arg[Ctor]

(* the value a detector returns on the batch the analyzer was built from *)
DetectorOn(op, args, batch) ==
    CASE op = "detect_circular_trading" ->
             detect_circular_trading(_build_graph(batch), args[1])
      [] op = "detect_self_dealing" -> detect_self_dealing(_build_graph(batch))
      [] op = "detect_ping_pong_trading" ->
             detect_ping_pong_trading(_build_graph(batch), args[1])
      [] op = "detect_suspicious_timing" -> detect_suspicious_timing(batch, args[1])
      [] op = "detect_unusual_price_patterns" ->
             detect_unusual_price_patterns(batch, args[1].num, args[1].den)
      [] op = "temporal_sequence_detection" -> temporal_sequence_detection(batch)
      [] op = "statistical_anomaly_detection" -> statistical_anomaly_detection(batch)
      [] op = "rule_based_heuristic_evaluation" ->
             rule_based_heuristic_evaluation(_build_graph(batch), batch)

C24_AsConstructed ==
    /\ transactions = ConstructedFrom
    /\ analyzer_graph = _build_graph(ConstructedFrom)
    /\ _tx_lookup = TxLookup(ConstructedFrom)
    /\ _partners_cache = PartnersCache(ConstructedFrom)
    /\ _gas_map_cache = GasMapCache(ConstructedFrom)
    /\ graph # None =>
          /\ graph = MultiAddEdges(EmptyMultiDiGraph(graph.id), ConstructedFrom)
          /\ _graph_cache = graph
    /\ lastCall.op \in {"detect_circular_trading", "detect_self_dealing",
                        "detect_ping_pong_trading", "detect_suspicious_timing",
                        "detect_unusual_price_patterns", "temporal_sequence_detection",
                        "statistical_anomaly_detection",
                        "rule_based_heuristic_evaluation"} =>
          lastCall.result = DetectorOn(lastCall.op, lastCall.args, ConstructedFrom)

C24_ReadOnlyStep ==
    /\ UNCHANGED <<transactions, analyzer_graph, _tx_lookup, _partners_cache,
                   _gas_map_cache>>
    /\ graph # None => UNCHANGED <<graph, _graph_cache>>

(* C24: no detector, stage, clustering or scoring call changes the batch,  *)
(* the analyzer's graph, the mapper's graph or the three indices: in every *)
(* state they are what the constructors built from the batch, and what a   *)
(* detector returns is its value on that batch, whatever was called        *)
(* before.                                                                 *)
C24_BatchGraphIndicesReadOnly == []C24_AsConstructed /\ [][C24_ReadOnlyStep]_vars

C24_Witness ==
    /\ lastCall.op = "detect_self_dealing"
    /\ lastCall.result # <<>>
    /\ wallet_clusters # <<>>
    /\ \E key \in DOMAIN relationship_scores : <<key[2], key[1]>> \notin DOMAIN _tx_lookup

(* C25: in temporal_sequence_detection the window after the k-th           *)
(* transaction in timestamp order holds exactly the transactions seen so   *)
(* far that are at most 120 seconds older than it, so its newest timestamp *)
(* exceeds its oldest by at most 120; the bursts returned are, in order,   *)
(* the windows that hold more than 3 transactions, each as often as it     *)
(* occurs (overlapping bursts are all returned), so every burst has at     *)
(* least 4 transactions spanning at most 120 seconds.                      *)
C25_WindowWithin120 ==
    lastCall.op = "temporal_sequence_detection" =>
        LET windows == lastCall.windows
            oldest(k) == CHOOSE s \in 1..k :
                             /\ ByTime[k].timestamp - ByTime[s].timestamp <= 120
                             /\ \A r \in 1..(s - 1) :
                                   ByTime[k].timestamp - ByTime[r].timestamp > 120
            big == {k \in DOMAIN windows : Len(windows[k]) > 3}
            nth(r) == CHOOSE k \in big : Cardinality({h \in big : h < k}) = r - 1
        IN  /\ Len(windows) = Len(transactions)
            /\ \A k \in DOMAIN windows :
                  /\ windows[k] = SubSeq(ByTime, oldest(k), k)
                  /\ windows[k][Len(windows[k])].timestamp - windows[k][1].timestamp <= 120
            /\ lastCall.result = [r \in 1..Cardinality(big) |-> windows[nth(r)]]
            /\ \A r \in DOMAIN lastCall.result :
                  /\ Len(lastCall.result[r]) >= 4
                  /\ \A x \in Range(lastCall.result[r]) : \A y \in Range(lastCall.result[r]) :
                        x.timestamp - y.timestamp <= 120

C25_Witness ==
    /\ lastCall.op = "temporal_sequence_detection"
    /\ Len(lastCall.result) = 2
    /\ Range(lastCall.result[1]) \cap Range(lastCall.result[2]) # {}
    /\ lastCall.result[1][1] \notin Range(lastCall.result[2])
    /\ lastCall.result[1][4].timestamp - lastCall.result[1][1].timestamp = 120
    /\ transactions[1].timestamp > transactions[2].timestamp

(* C26: statistical_anomaly_detection returns (it does not raise) and      *)
(* returns the empty list for a batch of fewer than 2 transactions and for *)
(* a batch whose prices are all equal; detect_suspicious_timing returns    *)
(* and flags no ordered pair that has a single transaction: a flagged pair *)
(* has at least 2 transactions, and its count is their number.             *)
C26_BelowMinimumSampleIsEmpty ==
    /\ lastCall.op = "statistical_anomaly_detection" =>
          ((\/ Len(transactions) < 2
            \/ \A i \in DOMAIN transactions : \A j \in DOMAIN transactions :
                  transactions[i].price = transactions[j].price)
              => lastCall.result = <<>>)
    /\ lastCall.op = "detect_suspicious_timing" =>
          \A r \in DOMAIN lastCall.result :
              LET hit == lastCall.result[r]
              IN  /\ TxCount(transactions, hit.pair[1], hit.pair[2]) >= 2
                  /\ hit.count = TxCount(transactions, hit.pair[1], hit.pair[2])

C26_Witness ==
    /\ lastCall.op = "detect_suspicious_timing"
    /\ Len(lastCall.result) = 1
    /\ \E k \in DOMAIN transactions :
          TxCount(transactions, transactions[k].from, transactions[k].to) = 1

(* C27: the confidence of every scored pair is min(1, n / 5), n being the  *)
(* number of transactions of the batch between the two wallets, in either  *)
(* direction: 0 when there is none, n / 5 below 5, and 1 from 5 on.        *)
C27_ConfidenceByPairCount ==
    /\ \A key \in DOMAIN relationship_scores :
          LET n == TxCount(transactions, key[1], key[2])
                   + TxCount(transactions, key[2], key[1])
              confidence == relationship_scores[key].confidence
          IN  /\ confidence.den > 0
              /\ n >= 5 => confidence.num = confidence.den
              /\ n < 5 => confidence.num * 5 = n * confidence.den
              /\ n = 0 => confidence.num = 0
    /\ (lastCall.op = "score_relationships" /\ lastCall.raised = "none") =>
          lastCall.result = relationship_scores

C27_Witness ==
    /\ lastCall.op = "score_relationships"
    /\ \E key \in DOMAIN relationship_scores :
          /\ TxCount(transactions, key[1], key[2]) = 2
          /\ TxCount(transactions, key[2], key[1]) = 2
          /\ relationship_scores[key].confidence = [num |-> 4, den |-> 5]

(* the fee values a wallet paid: the 'gas' of the transactions it sent *)
FeesPaid(w) == {transactions[k].gas : k \in {i \in DOMAIN transactions :
                                                transactions[i].from = w}}

(* C28: gas_payment_relationship_analysis(gas_threshold) returns an        *)
(* unordered pair of distinct wallets exactly when both paid a fee and the *)
(* fee values they have in common are at least gas_threshold of the fee    *)
(* values either paid; a wallet that paid no fee is in no returned pair,   *)
(* and no unordered pair is returned twice.                                *)
C28_GasPairsByFeeOverlap ==
    lastCall.op = "gas_payment_relationship_analysis" =>
        LET gas_threshold == lastCall.args[1]
            pairs == lastCall.result
            flagged(a, b) == \E i \in DOMAIN pairs : pairs[i] \in {<<a, b>>, <<b, a>>}
        IN  /\ \A a \in BatchWallets(transactions) : \A b \in BatchWallets(transactions) :
                  a # b =>
                      (flagged(a, b) <=>
                          /\ FeesPaid(a) # {}
                          /\ FeesPaid(b) # {}
                          /\ Cardinality(FeesPaid(a) \cap FeesPaid(b)) * gas_threshold.den
                                >= gas_threshold.num
                                     * Cardinality(FeesPaid(a) \cup FeesPaid(b)))
            /\ \A i \in DOMAIN pairs :
                  /\ pairs[i][1] # pairs[i][2]
                  /\ FeesPaid(pairs[i][1]) # {}
                  /\ FeesPaid(pairs[i][2]) # {}
            /\ \A i \in DOMAIN pairs : \A j \in DOMAIN pairs :
                  i # j => {pairs[i][1], pairs[i][2]} # {pairs[j][1], pairs[j][2]}

C28_Witness ==
    /\ lastCall.op = "gas_payment_relationship_analysis"
    /\ lastCall.args[1] = Frac(1, 2)
    /\ \E i \in DOMAIN lastCall.result :
          FeesPaid(lastCall.result[i][1]) # FeesPaid(lastCall.result[i][2])
    /\ \E w \in BatchWallets(transactions) : FeesPaid(w) = {}

(* C29: the five factors stored under a key (w1, w2) are the factors that  *)
(* scoring the same two wallets in the other order, (w2, w1), gives.       *)
C29_FactorsOrderIndependent ==
    \A key \in DOMAIN relationship_scores :
        \A f \in Factors :
            relationship_scores[key][f] = ScoreEntry(key[2], key[1])[f]

(* C30: a score_relationships call that completes stores the map it        *)
(* returns; the map is empty when no cluster_wallets call has filled the   *)
(* cluster list, and otherwise has exactly one key per pair of wallets     *)
(* sharing a cluster of the last cluster_wallets call, each key assigned   *)
(* once during the call.                                                   *)
C30_ScoringFollowsClustering ==
    (lastCall.op = "score_relationships" /\ lastCall.raised = "none") =>
        /\ relationship_scores = lastCall.result
        /\ wallet_clusters = <<>> => DOMAIN lastCall.result = {}
        /\ ExactlyClusterPairs(lastCall.result, wallet_clusters)
        /\ Range(lastCall.writes) = DOMAIN lastCall.result
        /\ \A i \in DOMAIN lastCall.writes : \A j \in DOMAIN lastCall.writes :
              i # j => lastCall.writes[i] # lastCall.writes[j]

C30_Witness ==
    /\ lastCall.op = "score_relationships"
    /\ graph # None
    /\ Len(transactions) >= 2
    /\ wallet_clusters = <<>>
    /\ DOMAIN relationship_scores = {}

====
